---- MODULE Spec2Model ----
(***************************************************************************)
(* Scoring & alert lifecycle of the SentinelAI fraud-detection backend.    *)
(*                                                                         *)
(* Spec       the request handlers POST /score (score_one), PATCH          *)
(*            /alerts/{id} (patch_alert) and the dashboard live simulation *)
(*            (_simulate_transactions / _score_and_maybe_alert), run by    *)
(*            concurrent workers, each with its own database session, over *)
(*            the tables transactions, risk_scores, alerts, alert_events.  *)
(*            One action is one stretch of a handler between two awaits on *)
(*            the database or on the WebSocket manager.                    *)
(* SpecRules  the rule scorer ScoringService._apply_rules over a grid of   *)
(*            feature sets, on a service instance whose mutable field      *)
(*            changes between calls.                                       *)
(***************************************************************************)
EXTENDS Integers, Sequences, FiniteSets, TLC

\* ------------------------------------------------------------------ bounds
\* instants of the wall clock (datetime.utcnow / datetime.now)
MaxClock == 1
\* calls of the rule scorer on one service instance (SpecRules)
MaxRuleCalls == 2
\* SpecRate: requests answered in a behaviour, advances of the time
MaxRequests == 3
MaxTicks == 2
\* SpecScoring: score_and_persist calls in a behaviour
MaxScoreCalls == 2
\* SpecFeatures: transactions ingested, builds made
MaxIngested == 2
MaxBuilds == 2

\* ------------------------------------------------------- program constants
ALERT_THRESHOLD == 70
BASE_SCORE == 10
MAX_FACTORS == 5
\* rate_limit.py: the length of a window in seconds, the default cap
WINDOW == 60
DEFAULT_RPM == 120
\* feature_builder.py: timedelta(hours=24), timedelta(days=7)
HOURS_24 == 24
DAYS_7 == 7

\* the request handlers that run concurrently, in the order they take requests
WorkerSeq == <<"w1", "w2">>
Workers == {WorkerSeq[i] : i \in 1..Len(WorkerSeq)}
TxIds == {"t1", "t2"}

\* AlertStatus (schemas/alerts.py)
AlertStatus == {"A_TRAITER", "EN_ENQUETE", "CLOTURE"}

NoStatus == "<None>"
NoneStr == "<None>"

Max(a, b) == IF a >= b THEN a ELSE b
Min(a, b) == IF a <= b THEN a ELSE b
\* a score taken as it comes
Unclamped(x) == x

\* max(0, min(100, x))
Clamp100(x) == Max(0, Min(100, x))

\* ------------------------------------------------------------- rule scorer
\* str.lower() on the strings the model uses
LowerMap == [s \in {"Electronics", "HOTEL", "Saint-Denis", "Aubervilliers", "Montreuil"} |->
               CASE s = "Electronics" -> "electronics"
                 [] s = "HOTEL" -> "hotel"
                 [] s = "Saint-Denis" -> "saint-denis"
                 [] s = "Aubervilliers" -> "aubervilliers"
                 [] s = "Montreuil" -> "montreuil"]
Lower(s) == IF s \in DOMAIN LowerMap THEN LowerMap[s] ELSE s

\* (x or "") on an optional string
OrEmpty(s) == IF s = NoneStr THEN "" ELSE s

\* ScoringService.__init__ with its default arguments
DefaultService ==
  [model_version |-> "rules_v1",
   high_risk_categories |-> {Lower(c) : c \in {"ecommerce", "electronics", "hotel"}},
   high_risk_zones |-> {Lower(z) : z \in {"Saint-Denis", "Aubervilliers", "Montreuil"}}]

\* 1) amount tiers, the highest wins
AmountTier(amount) ==
  IF amount >= 200 THEN <<[inc |-> 35, factor |-> "Montant tres eleve (>= 200)"]>>
  ELSE IF amount >= 120 THEN <<[inc |-> 20, factor |-> "Montant eleve (>= 120)"]>>
  ELSE IF amount >= 60 THEN <<[inc |-> 10, factor |-> "Montant au-dessus de la moyenne (>= 60)"]>>
  ELSE <<>>

\* 2) odd hours
HourTier(hour) ==
  IF hour <= 5 THEN <<[inc |-> 20, factor |-> "Horaire atypique (nuit)"]>>
  ELSE IF hour <= 7 THEN <<[inc |-> 10, factor |-> "Horaire tot le matin"]>>
  ELSE <<>>

\* 3) online
OnlineRule(is_online) ==
  IF is_online THEN <<[inc |-> 10, factor |-> "Transaction en ligne"]>> ELSE <<>>

\* 4) high-risk category
CategoryRule(self, category) ==
  IF category \in self.high_risk_categories
  THEN <<[inc |-> 15, factor |-> "Categorie a risque"]>> ELSE <<>>

\* 5) high-risk zone
ZoneRule(self, zone) ==
  IF zone # "" /\ zone \in self.high_risk_zones
  THEN <<[inc |-> 10, factor |-> "Zone sensible"]>> ELSE <<>>

\* the frequency tiers as independent conditions: both fire at 5 and over
FrequencyTierCumulative(count) ==
  (IF count >= 5 THEN <<[inc |-> 15, factor |-> "Frequence elevee (>= 5 transactions/24h)"]>>
   ELSE <<>>)
  \o (IF count >= 3 THEN <<[inc |-> 8, factor |-> "Frequence moderee (>= 3 transactions/24h)"]>>
      ELSE <<>>)

\* 6) merchant frequency over 24h
FrequencyTier(count) ==
  IF count >= 5 THEN <<[inc |-> 15, factor |-> "Frequence elevee (>= 5 transactions/24h)"]>>
  ELSE IF count >= 3 THEN <<[inc |-> 8, factor |-> "Frequence moderee (>= 3 transactions/24h)"]>>
  ELSE <<>>

\* 7) amount against the 7-day category mean; avg is <<>> (None) or <<mean>>
AvgRule(amount, avg) ==
  IF avg # <<>> /\ avg[1] > 0 /\ amount >= 2 * avg[1]
  THEN <<[inc |-> 10, factor |-> "Montant tres superieur a la moyenne de la categorie (7j)"]>>
  ELSE <<>>

\* the conditions that fire, in evaluation order
FiredRules(self, f) ==
  AmountTier(f.amount)
    \o HourTier(f.hour)
    \o OnlineRule(f.is_online)
    \o CategoryRule(self, Lower(OrEmpty(f.category)))
    \o ZoneRule(self, Lower(OrEmpty(f.arrondissement)))
    \o FrequencyTier(f.merchant_tx_count_24h)
    \o AvgRule(f.amount, f.avg_amount_category_7d)

RECURSIVE SumInc(_)
SumInc(s) == IF s = <<>> THEN 0 ELSE s[1].inc + SumInc(Tail(s))

\* s[:n]
Take(s, n) == SubSeq(s, 1, Min(n, Len(s)))

\* _apply_rules without the clamp of line 151
ApplyRulesUnclamped(self, f) ==
  LET fired == FiredRules(self, f)
  IN  [score |-> BASE_SCORE + SumInc(fired),
       factors |-> Take([i \in 1..Len(fired) |-> fired[i].factor], MAX_FACTORS)]

\* ScoringService._apply_rules
ApplyRules(self, f) ==
  LET fired == FiredRules(self, f)
  IN  [score |-> Clamp100(BASE_SCORE + SumInc(fired)),
       factors |-> Take([i \in 1..Len(fired) |-> fired[i].factor], MAX_FACTORS)]

\* ScoringService._risk_level
RiskLevel(score) ==
  IF score >= 70 THEN "HIGH" ELSE IF score >= 40 THEN "MEDIUM" ELSE "LOW"

\* ------------------------------------------------- model scorer and fusion
\* loaded.model_version of the artifact of each kind
ModelVersionOf(kind) == IF kind = "xgboost" THEN "xgboost_v1" ELSE "iforest_v1"
\* f"Modele IA utilise: {ml_kind}"
ModelFactor(kind) == IF kind = "xgboost" THEN "Modele IA utilise: xgboost"
                     ELSE "Modele IA utilise: iforest"

\* What the model registry holds when infer_score runs: no artifact
\* ("absent"), an artifact that fails ("raise"), or a model whose output,
\* as a percentage before normalisation, is raw.
\* infer_score: None, an exception, or InferenceResult(score in 0..100)
InferScore(m) ==
  CASE m.kind = "absent" -> [status |-> "none", score |-> 0, model_version |-> "", kind |-> ""]
    [] m.kind = "raise" -> [status |-> "raise", score |-> 0, model_version |-> "", kind |-> ""]
    [] OTHER -> [status |-> "ok", score |-> Clamp100(m.raw),
                 model_version |-> ModelVersionOf(m.kind), kind |-> m.kind]

\* score_and_persist, lines 167-198: rule baseline, then max with the model
\* score when the model answered; an exception of the model is swallowed
Fuse(self, rules, ml) ==
  IF ml.status = "ok"
  THEN [rules_score |-> rules.score,
        score |-> Max(rules.score, Clamp100(ml.score)),
        ml_used |-> TRUE,
        model_version |-> ml.model_version]
  ELSE [rules_score |-> rules.score, score |-> rules.score,
        ml_used |-> FALSE, model_version |-> self.model_version]

\* the factor list without the [:5] of line 190
FuseFactorsUntruncated(rules, ml) ==
  IF ml.status = "ok"
  THEN <<ModelFactor(ml.kind)>> \o rules.factors
  ELSE rules.factors

\* the factor list of the fused result
FuseFactors(rules, ml) ==
  IF ml.status = "ok"
  THEN Take(<<ModelFactor(ml.kind)>> \o rules.factors, MAX_FACTORS)
  ELSE rules.factors

\* ------------------------------------------------------------ environment
\* Feature sets met by the request handlers: FeatureBuilder.build reads the
\* transaction (here 120 EUR, online, at 3 o'clock) and the rolling
\* aggregates, which move between two scorings of the same transaction as
\* other transactions are ingested: the 7-day category mean is 70 (rules
\* score 60) or 50 (rules score 70).
FLow == [amount |-> 120, hour |-> 3, category |-> "grocery", arrondissement |-> NoneStr,
         is_online |-> TRUE, merchant_tx_count_24h |-> 1, avg_amount_category_7d |-> <<70>>]
FHigh == [FLow EXCEPT !.avg_amount_category_7d = <<50>>]
MAbsent == [kind |-> "absent", raw |-> 0]
MRaise == [kind |-> "raise", raw |-> 0]
MXgb50 == [kind |-> "xgboost", raw |-> 50]
MXgb85 == [kind |-> "xgboost", raw |-> 85]

\* (features, model) met by a scoring call: rules 60 or 70; no model, a
\* failing model, a model under the rules and a model over the rules
ScoreInputs == {<<FLow, MAbsent>>, <<FLow, MRaise>>, <<FLow, MXgb85>>,
                <<FHigh, MAbsent>>, <<FHigh, MRaise>>, <<FHigh, MXgb50>>}

\* AlertPatch.comment: None, "", blanks, text
Comments == {NoneStr, "", "  ", "ok"}
\* AlertPatch bodies (status, comment): closing with each comment, the other
\* two statuses without comment
PatchInputs == ({"CLOTURE"} \X Comments) \cup ({"A_TRAITER", "EN_ENQUETE"} \X {NoneStr})
\* str.strip() on the comments above
Strip(s) == IF s = "  " THEN "" ELSE s
\* truthiness of an optional string
Truthy(s) == s # NoneStr /\ s # ""

\* ------------------------------------------------------------------ state
VARIABLES
  transactions,  \* ids of the rows of table transactions
  riskScores,    \* rows of table risk_scores
  alerts,        \* rows of table alerts
  events,        \* rows of table alert_events, in insertion order
  sent,          \* payloads handed to the WebSocket manager, in order
  clock,         \* the wall clock
  pc,            \* per worker: where its handler stands
  loc,           \* per worker: the handler's locals and its session's objects
  resp,          \* per worker: the response of its last request
  svc,           \* SpecRules: the ScoringService instance under test
  rf,            \* SpecRules: the feature set under test
  rres,          \* SpecRules: results of the calls made on rf so far
  rn,            \* SpecRules: calls made on the instance
  connections,   \* SpecBroadcast: ConnectionManager._connections
  sock,          \* SpecBroadcast: per WebSocket, the state of its connection
  bc,            \* SpecBroadcast: per publisher, its broadcast_json call
  received,      \* SpecBroadcast: per WebSocket, the payloads it was sent
  settings,      \* SpecRate: RATE_LIMIT_ENABLED and RATE_LIMIT_RPM
  buckets,       \* SpecRate: InMemoryRateLimiter._buckets
  rtime,         \* SpecRate: time.time(), in seconds
  rticks,        \* SpecRate: how often the time has advanced
  rlog,          \* SpecRate: the requests answered so far, with their answers
  instances,     \* SpecScoring: the ScoringService objects
  stored,        \* SpecScoring: per transaction, its risk_scores row
  calls,         \* SpecScoring: the score_and_persist calls made, in order
  ledger,        \* SpecFeatures: the rows of table transactions
  built,         \* SpecFeatures: the builds made so far, with the table they read
  registered,    \* SpecRegistry: ConnectionManager._connections
  lock,          \* SpecRegistry: the task inside ConnectionManager._lock, or "free"
  link,          \* SpecRegistry: per WebSocket, the state of its transport
  route,         \* SpecRegistry: per WebSocket, where its ws_alerts call stands
  pub,           \* SpecRegistry: the broadcast_json call
  got,           \* SpecRegistry: the WebSockets that were sent the payload
  closer         \* SpecRegistry: the close_all call

wsVars == <<connections, sock, bc, received>>
rlVars == <<settings, buckets, rtime, rticks, rlog>>
scVars == <<instances, stored, calls>>
fbVars == <<ledger, built>>
rgVars == <<registered, lock, link, route, pub, got, closer>>
\* the components checked in their own specifications
compVars == <<wsVars, rlVars, scVars, fbVars, rgVars>>
vars == <<transactions, riskScores, alerts, events, sent, clock, pc, loc, resp,
          svc, rf, rres, rn, compVars>>
dbVars == <<transactions, riskScores, alerts, events>>
rulesVars == <<svc, rf, rres, rn>>
appVars == <<dbVars, sent, clock, pc, loc, resp, rulesVars>>
\* what the steps of one component leave alone
notWs == <<appVars, rlVars, scVars, fbVars, rgVars>>
notRl == <<appVars, wsVars, scVars, fbVars, rgVars>>
notSc == <<appVars, wsVars, rlVars, fbVars, rgVars>>
notFb == <<appVars, wsVars, rlVars, scVars, rgVars>>
notRg == <<appVars, wsVars, rlVars, scVars, fbVars>>

\* the WebSockets that may connect to /ws/alerts, and the handlers that
\* publish one payload each once their writes are committed
Observers == {"o1", "o2", "o3"}
Publishers == {"b1", "b2"}

\* a publisher whose handler has committed and has not called broadcast_json
IdleBroadcast == [pc |-> "committed", conns |-> <<>>, i |-> 1, dead |-> <<>>]

\* ConnectionManager.__init__: no connection
WsIdle ==
  /\ connections = {}
  /\ sock = [o \in Observers |-> "new"]
  /\ bc = [b \in Publishers |-> IdleBroadcast]
  /\ received = [o \in Observers |-> {}]

\* the callers and routes of the requests: two addresses on a route under
\* the limiter, a CORS preflight and a route outside the limiter
Requests ==
  {[ip |-> "ip1", method |-> "POST", path |-> "/score"],
   [ip |-> "ip2", method |-> "POST", path |-> "/score"],
   [ip |-> "ip1", method |-> "OPTIONS", path |-> "/score"],
   [ip |-> "ip1", method |-> "GET", path |-> "/health"]}

\* key = (ip, f"{request.method} {request.url.path}")
KeyOf(r) == <<r.ip, r.method, r.path>>
Keys == {KeyOf(r) : r \in Requests}

NoBucket == [window_start |-> -1, count |-> 0]

\* rate_limiter = InMemoryRateLimiter(): no bucket; settings as shipped
RlIdle ==
  /\ settings = [RATE_LIMIT_ENABLED |-> FALSE, RATE_LIMIT_RPM |-> 120]
  /\ buckets = [k \in Keys |-> NoBucket]
  /\ rtime = 0
  /\ rticks = 0
  /\ rlog = <<>>

\* the ScoringService objects a program holds
Instances == {"s1", "s2"}
NoRow == [score |-> -1]

\* ScoringService() for each object; nothing scored
ScIdle ==
  /\ instances = [i \in Instances |-> DefaultService]
  /\ stored = [t \in TxIds |-> NoRow]
  /\ calls = <<>>

\* the transaction whose features are built: 120 EUR at merchant m1,
\* category c1, at hour 200 of the time line
BuiltTx == [merchant_name |-> "m1", merchant_category |-> "c1", amount |-> 120,
            occurred_at |-> 200]

\* table transactions holding that transaction alone; no build made
FbIdle ==
  /\ ledger = {BuiltTx}
  /\ built = <<>>

\* the WebSockets of SpecRegistry
Clients == {"o1", "o2"}

\* a broadcast_json and a close_all that were not called
IdlePub == [pc |-> "idle", conns |-> <<>>, i |-> 1, dead |-> <<>>]
IdleCloser == [pc |-> "idle", conns |-> {}]

\* ConnectionManager.__init__: an empty set and a free lock; no WebSocket
\* has reached /ws/alerts
RgIdle ==
  /\ registered = {}
  /\ lock = "free"
  /\ link = [o \in Clients |-> "up"]
  /\ route = [o \in Clients |-> "new"]
  /\ pub = IdlePub
  /\ got = {}
  /\ closer = IdleCloser

CompIdle == WsIdle /\ RlIdle /\ ScIdle /\ FbIdle /\ RgIdle

IdleLoc ==
  [kind |-> "none", call |-> 0, tx |-> "",
   rules |-> 0, final |-> 0, ml_used |-> FALSE, ml_score |-> 0, version |-> "",
   ex_id |-> 0, ex_score |-> 0, ex_version |-> "", ex_rules |-> 0, ex_final |-> 0,
   rs_id |-> 0,
   al_id |-> 0, al_snap |-> 0, al_status |-> NoStatus,
   pend |-> "none", now |-> 0, ev_now |-> 0,
   new_status |-> NoStatus, comment |-> NoneStr,
   pre_status |-> NoStatus, post_status |-> NoStatus,
   listed |-> <<>>]

\* .scalars().first() of a select: a row of the result, or none
First(rows) == IF rows = {} THEN {} ELSE {CHOOSE r \in rows : TRUE}

\* datetime.utcnow(): the clock may have advanced since it was last read
Instants == {clock, Min(clock + 1, MaxClock)}

\* the number of the request worker p serves: each worker serves one request
CallOf(p) == CHOOSE i \in 1..Len(WorkerSeq) : WorkerSeq[i] = p

\* a request is taken by the first worker that is idle (the workers are
\* interchangeable)
CanStart(p) ==
  /\ pc[p] = "idle"
  /\ \A j \in 1..(CallOf(p) - 1) : pc[WorkerSeq[j]] # "idle"

\* the handler goes on to its next await with locals l
Goto(p, where, l) ==
  /\ pc' = [pc EXCEPT ![p] = where]
  /\ loc' = [loc EXCEPT ![p] = l]
  /\ resp' = [resp EXCEPT ![p] = "none"]

\* the handler answers r, with locals l
Return(p, r, l) ==
  /\ pc' = [pc EXCEPT ![p] = "done"]
  /\ loc' = [loc EXCEPT ![p] = l]
  /\ resp' = [resp EXCEPT ![p] = r]

\* A database in which transaction t1 was scored 70 by the rules alone and
\* got its alert: what one POST /score leaves behind.
SeedRiskScore ==
  [id |-> 100, transaction_id |-> "t1", score |-> 70, model_version |-> "rules_v1",
   f_rules |-> 70, f_final |-> 70]
SeedAlert ==
  [id |-> 100, transaction_id |-> "t1", risk_score_id |-> 100, score_snapshot |-> 70,
   status |-> "A_TRAITER", updated_at |-> 0]
SeedEvent ==
  [alert_id |-> 100, event_type |-> "CREATED", old_status |-> NoStatus,
   new_status |-> "A_TRAITER", message |-> "Alerte creee automatiquement",
   actor |-> NoneStr, request_id |-> 0, created_at |-> 0, call |-> 0]

\* The same database after PATCH /alerts/100 {status: EN_ENQUETE}.
SeedAlertPatched == [SeedAlert EXCEPT !.status = "EN_ENQUETE"]
SeedPatchEvent ==
  [alert_id |-> 100, event_type |-> "STATUS_CHANGE", old_status |-> "A_TRAITER",
   new_status |-> "EN_ENQUETE", message |-> NoneStr,
   actor |-> "demo_admin", request_id |-> 0, created_at |-> 0, call |-> 0]

\* The requests of a behaviour meet a database that holds transaction t1:
\* never scored, scored with its alert, or scored with its alert under
\* investigation.
Init ==
  /\ transactions = {"t1"}
  /\ \/ riskScores = {} /\ alerts = {} /\ events = <<>>
     \/ riskScores = {SeedRiskScore} /\ alerts = {SeedAlert} /\ events = <<SeedEvent>>
     \/ /\ riskScores = {SeedRiskScore}
        /\ alerts = {SeedAlertPatched}
        /\ events = <<SeedEvent, SeedPatchEvent>>
  /\ sent = <<>>
  /\ clock = 0
  /\ pc = [p \in Workers |-> "idle"]
  /\ loc = [p \in Workers |-> IdleLoc]
  /\ resp = [p \in Workers |-> "none"]
  /\ svc = DefaultService
  /\ rf = FLow
  /\ rres = <<>>
  /\ rn = 0
  /\ CompIdle

\* ------------------------------------------------- storage-layer constraints
\* the column declared without unique=True
RiskScoreUniqueOff(rows, tx) == TRUE
\* risk_scores.transaction_id is unique: may a row for tx be inserted?
RiskScoreUnique(rows, tx) == \A r \in rows : r.transaction_id # tx

\* the column declared without unique=True
AlertUniqueOff(rows, rsid) == TRUE
\* alerts.risk_score_id is unique: may a row for risk_score_id be inserted?
AlertUnique(rows, rsid) == \A a \in rows : a.risk_score_id # rsid

\* ------------------------------------------------------ score_and_persist
\* features -> rules -> model -> fusion, on a fresh ScoringService()
ScoreResult(f, m) == Fuse(DefaultService, ApplyRules(DefaultService, f), InferScore(m))

\* the handler's locals once the scoring result is computed
Scored(p, kind, tx, f, m) ==
  LET res == ScoreResult(f, m)
  IN  [IdleLoc EXCEPT !.kind = kind, !.call = CallOf(p), !.tx = tx,
                      !.rules = res.rules_score, !.final = res.score,
                      !.ml_used = res.ml_used,
                      !.ml_score = InferScore(m).score,
                      !.version = res.model_version]

\* the handlers without their "if not ...: raise HTTPException(404)"
NotFoundSkipped(rows) == FALSE

\* if not tx / if not alert, on the .first() of the select by id
NotFound(rows) == rows = {}

\* POST /score: load the transaction (404 when unknown), build the features
\* and compute the result; next the upsert's select
ScoreBegin(p, tx, f, m) ==
  /\ CanStart(p)
  /\ IF NotFound({t \in transactions : t = tx})
     THEN Return(p, "NOT_FOUND", [IdleLoc EXCEPT !.kind = "score", !.call = CallOf(p), !.tx = tx])
     ELSE Goto(p, "u_select", Scored(p, "score", tx, f, m))
  /\ UNCHANGED <<dbVars, sent, clock, rulesVars, compVars>>

\* select(RiskScore).where(transaction_id == tx.id).first()
UpsertSelect(p) ==
  /\ pc[p] = "u_select"
  /\ LET ex == First({r \in riskScores : r.transaction_id = loc[p].tx})
     IN  IF ex = {}
         THEN Goto(p, "u_commit", loc[p])
         ELSE LET r == CHOOSE x \in ex : TRUE
              IN  Goto(p, "u_commit", [loc[p] EXCEPT !.ex_id = r.id, !.ex_score = r.score,
                                                     !.ex_version = r.model_version,
                                                     !.ex_rules = r.f_rules,
                                                     !.ex_final = r.f_final])
  /\ UNCHANGED <<dbVars, sent, clock, rulesVars, compVars>>

\* Is the features column written by the UPDATE? The payload holds the
\* inputs, the factors, rules_score and final_score: it differs from the
\* loaded one when a score differs, and may differ by its inputs alone.
PayloadWrites(l) ==
  IF l.rules = l.ex_rules /\ l.final = l.ex_final THEN {TRUE, FALSE} ELSE {TRUE}

\* the UPDATE the session flushes for a loaded row: only the attributes whose
\* value differs from the loaded one are written (score, model_version; the
\* features payload when w)
UpdatedRiskScore(row, l, w) ==
  [row EXCEPT !.score = IF l.final # l.ex_score THEN l.final ELSE @,
              !.model_version = IF l.version # l.ex_version THEN l.version ELSE @,
              !.f_rules = IF w THEN l.rules ELSE @,
              !.f_final = IF w THEN l.final ELSE @]

NewRiskScore(l) ==
  [id |-> l.call, transaction_id |-> l.tx, score |-> l.final,
   model_version |-> l.version, f_rules |-> l.rules, f_final |-> l.final]

\* the test against a threshold ten points under the configured one
MeetsLoweredThreshold(score) == score >= ALERT_THRESHOLD - 10
\* the alert branch taken whatever the score
AlwaysAlert(score) == TRUE
\* the threshold test of score_one and of _score_and_maybe_alert
MeetsThreshold(score) == score >= ALERT_THRESHOLD

\* after the upsert the RiskScore of the transaction is read back
\* (db.refresh, then the select of score_one or of _score_and_maybe_alert);
\* the dashboard helper ends here when it finds no row or a score under the
\* threshold
AfterUpsert(p, l, rows) ==
  LET rs == First({r \in rows : r.transaction_id = l.tx})
      id == IF rs = {} THEN 0 ELSE (CHOOSE r \in rs : TRUE).id
      l1 == [l EXCEPT !.rs_id = id]
  IN  IF l.kind = "dash"
      THEN IF id # 0 /\ MeetsThreshold(l.final)
           THEN Goto(p, "d_select_alert", l1)
           ELSE Return(p, "OK", l1)
      ELSE Goto(p, "s_notify", l1)

\* db.commit() of the upsert: UPDATE of the loaded row, or INSERT, which the
\* unique constraint on transaction_id rejects (IntegrityError -> 500)
UpsertCommit(p) ==
  /\ pc[p] = "u_commit"
  /\ LET l == loc[p]
     IN  IF l.ex_id # 0
         THEN \E w \in PayloadWrites(l) :
                /\ riskScores' = {IF r.id = l.ex_id THEN UpdatedRiskScore(r, l, w) ELSE r :
                                    r \in riskScores}
                /\ AfterUpsert(p, l, riskScores')
         ELSE IF RiskScoreUnique(riskScores, l.tx)
         THEN /\ riskScores' = riskScores \cup {NewRiskScore(l)}
              /\ AfterUpsert(p, l, riskScores')
         ELSE /\ UNCHANGED riskScores
              /\ Return(p, "INTERNAL_ERROR", l)
  /\ UNCHANGED <<transactions, alerts, events, sent, clock, rulesVars, compVars>>

\* ---------------------------------------------- publishing a notification
\* What happens to one payload handed to _ws_broadcast / _safe_broadcast:
\* the manager takes it ("delivered"), app.state holds no ws_manager
\* ("no_manager"), jsonable_encoder raises on the payload ("encode_error"),
\* or the manager's broadcast raises ("send_error").
Dispatches == {"delivered", "no_manager", "encode_error", "send_error"}

\* the same helpers without their try ... except Exception
BroadcastRaisesUnguarded(d) == d \in {"encode_error", "send_error"}

\* _ws_broadcast and _safe_broadcast run their whole body inside
\* try ... except Exception: pass / return, so no outcome raises to the handler
BroadcastRaises(d) == FALSE

\* the payloads the manager has taken, after the dispatch d of payload
Dispatched(d, payload) == IF d = "delivered" THEN Append(sent, payload) ELSE sent

\* _ws_broadcast(SCORE_COMPUTED), then the threshold test
ScoreNotify(p) ==
  /\ pc[p] = "s_notify"
  /\ \E d \in Dispatches :
       /\ sent' = Dispatched(d, [type |-> "SCORE_COMPUTED", call |-> loc[p].call,
                                 alert |-> 0])
       /\ IF BroadcastRaises(d)
          THEN Return(p, "INTERNAL_ERROR", loc[p])
          ELSE IF loc[p].rs_id # 0 /\ MeetsThreshold(loc[p].final)
               THEN Goto(p, "s_select_alert", loc[p])
               ELSE Return(p, "OK", loc[p])
  /\ UNCHANGED <<dbVars, clock, rulesVars, compVars>>

\* ------------------------------------------------------ score_one: the alert
\* select(Alert).where(risk_score_id == rs.id).first(); an existing alert
\* gets its snapshot set when the score differs, otherwise a new Alert is
\* built and added to the session
ScoreSelectAlert(p) ==
  /\ pc[p] = "s_select_alert"
  /\ \E t \in Instants :
       /\ clock' = t
       /\ LET ex == First({a \in alerts : a.risk_score_id = loc[p].rs_id})
          IN  IF ex # {}
              THEN LET a == CHOOSE x \in ex : TRUE
                   IN  Goto(p, "s_commit_alert",
                            [loc[p] EXCEPT !.al_id = a.id, !.al_snap = a.score_snapshot,
                                           !.al_status = a.status,
                                           !.pend = IF a.score_snapshot # loc[p].final
                                                    THEN "update" ELSE "noop",
                                           !.now = t, !.ev_now = t])
              ELSE Goto(p, "s_commit_alert",
                        [loc[p] EXCEPT !.al_id = loc[p].call, !.pend = "insert", !.now = t])
  /\ UNCHANGED <<dbVars, sent, rulesVars, compVars>>

\* an Alert that is always attached to transaction t1
NewAlertOnFirstTransaction(l, status) ==
  [id |-> l.al_id, transaction_id |-> "t1", risk_score_id |-> l.rs_id,
   score_snapshot |-> l.final, status |-> status, updated_at |-> l.now]

NewAlert(l, status) ==
  [id |-> l.al_id, transaction_id |-> l.tx, risk_score_id |-> l.rs_id,
   score_snapshot |-> l.final, status |-> status, updated_at |-> l.now]

\* the UPDATE of an alert whose snapshot was set: score_snapshot, updated_at
SnapshotUpdated(a, l) == [a EXCEPT !.score_snapshot = l.final, !.updated_at = l.now]

CreatedEvent(l) ==
  [alert_id |-> l.al_id, event_type |-> "CREATED", old_status |-> NoStatus,
   new_status |-> "A_TRAITER", message |-> "Alerte creee automatiquement",
   actor |-> NoneStr, request_id |-> 0, created_at |-> l.ev_now, call |-> l.call]

ScoreUpdatedEvent(l) ==
  [alert_id |-> l.al_id, event_type |-> "SCORE_UPDATED", old_status |-> l.al_status,
   new_status |-> l.al_status, message |-> "score_snapshot",
   actor |-> NoneStr, request_id |-> 0, created_at |-> l.ev_now, call |-> l.call]

\* the flush of score_one with its IntegrityError swallowed: the handler
\* goes on to refresh and publish
FlushRejectedSwallowed(p, l) == Goto(p, "s_notify_alert", l)

\* db.flush() raises IntegrityError: nothing catches it, the session is
\* dropped without commit and the request ends in 500
FlushRejected(p, l) == Return(p, "INTERNAL_ERROR", l)

\* db.flush() and db.commit() of score_one. A new Alert is INSERTed by the
\* flush, which the unique constraint on risk_score_id rejects (IntegrityError
\* -> 500); the CREATED event is stamped after the flush and written by the
\* commit. No other session sees the row between the two, and an INSERT of
\* the same key waits for the commit: the two are one step. An existing
\* alert is UPDATEd with its SCORE_UPDATED event.
ScoreCommitAlert(p) ==
  /\ pc[p] = "s_commit_alert"
  /\ LET l == loc[p]
     IN  CASE l.pend = "insert" ->
                IF AlertUnique(alerts, l.rs_id)
                THEN \E t \in Instants :
                       /\ clock' = t
                       /\ alerts' = alerts \cup {NewAlert(l, "A_TRAITER")}
                       /\ events' = Append(events, CreatedEvent([l EXCEPT !.ev_now = t]))
                       /\ Goto(p, "s_notify_alert", [l EXCEPT !.ev_now = t])
                ELSE /\ UNCHANGED <<alerts, events, clock>>
                     /\ FlushRejected(p, l)
           [] l.pend = "update" ->
                /\ alerts' = {IF a.id = l.al_id THEN SnapshotUpdated(a, l) ELSE a : a \in alerts}
                /\ events' = Append(events, ScoreUpdatedEvent(l))
                /\ UNCHANGED clock
                /\ Goto(p, "s_notify_alert", l)
           [] OTHER ->
                /\ UNCHANGED <<alerts, events, clock>>
                /\ Goto(p, "s_notify_alert", l)
  /\ UNCHANGED <<transactions, riskScores, sent, rulesVars, compVars>>

\* db.refresh(alert), _ws_broadcast(ALERT_CREATED), the response
ScoreNotifyAlert(p) ==
  /\ pc[p] = "s_notify_alert"
  /\ \E d \in Dispatches :
       /\ sent' = Dispatched(d, [type |-> "ALERT_CREATED", call |-> loc[p].call,
                                 alert |-> loc[p].al_id])
       /\ Return(p, IF BroadcastRaises(d) THEN "INTERNAL_ERROR" ELSE "OK", loc[p])
  /\ UNCHANGED <<dbVars, clock, rulesVars, compVars>>

\* --------------------------------------------- dashboard live simulation
\* _simulate_transactions with n = 1: a new transaction is committed, then
\* _score_and_maybe_alert scores it
DashBegin(p, tx, f, m) ==
  /\ CanStart(p)
  /\ tx \in TxIds \ transactions
  /\ transactions' = transactions \cup {tx}
  /\ Goto(p, "u_select", Scored(p, "dash", tx, f, m))
  /\ UNCHANGED <<riskScores, alerts, events, sent, clock, rulesVars, compVars>>

\* select(Alert).where(risk_score_id == rs.id).first(); the snapshot of an
\* existing alert is set when the score differs, otherwise an Alert with
\* status "open" is added to the session
DashSelectAlert(p) ==
  /\ pc[p] = "d_select_alert"
  /\ \E t \in Instants :
       /\ clock' = t
       /\ LET ex == First({a \in alerts : a.risk_score_id = loc[p].rs_id})
          IN  IF ex # {}
              THEN LET a == CHOOSE x \in ex : TRUE
                   IN  Goto(p, "d_commit",
                            [loc[p] EXCEPT !.al_id = a.id, !.al_snap = a.score_snapshot,
                                           !.al_status = a.status,
                                           !.pend = IF a.score_snapshot # loc[p].final
                                                    THEN "update" ELSE "noop",
                                           !.now = t])
              ELSE Goto(p, "d_commit",
                        [loc[p] EXCEPT !.al_id = loc[p].call, !.pend = "insert", !.now = t])
  /\ UNCHANGED <<dbVars, sent, rulesVars, compVars>>

\* db.commit() of _score_and_maybe_alert: no event is written
DashCommit(p) ==
  /\ pc[p] = "d_commit"
  /\ LET l == loc[p]
     IN  CASE l.pend = "insert" ->
                /\ IF AlertUnique(alerts, l.rs_id)
                   THEN /\ alerts' = alerts \cup {NewAlert(l, "open")}
                        /\ Return(p, "OK", l)
                   ELSE /\ UNCHANGED alerts
                        /\ Return(p, "INTERNAL_ERROR", l)
           [] l.pend = "update" ->
                /\ alerts' = {IF a.id = l.al_id THEN SnapshotUpdated(a, l) ELSE a : a \in alerts}
                /\ Return(p, "OK", l)
           [] OTHER ->
                /\ UNCHANGED alerts
                /\ Return(p, "OK", l)
  /\ UNCHANGED <<transactions, riskScores, events, sent, clock, rulesVars, compVars>>

\* ------------------------------------------------------------ patch_alert
\* the test without .strip()
CommentMissingUnstripped(new_status, comment) ==
  new_status = "CLOTURE" /\ ~Truthy(comment)

\* "comment is required when closing an alert"
CommentMissing(new_status, comment) ==
  new_status = "CLOTURE" /\ ~(Truthy(comment) /\ Truthy(Strip(comment)))

\* PATCH /alerts/{id}: load the alert (404 when unknown), validate (422),
\* set status and updated_at and add the STATUS_CHANGE event to the session
PatchBegin(p, aid, st, c) ==
  /\ CanStart(p)
  /\ LET ex == First({a \in alerts : a.id = aid})
         l0 == [IdleLoc EXCEPT !.kind = "patch", !.call = CallOf(p), !.al_id = aid,
                               !.new_status = st, !.comment = c]
     IN  IF NotFound(ex)
         THEN /\ Return(p, "NOT_FOUND", l0)
              /\ UNCHANGED clock
         ELSE IF CommentMissing(st, c)
         THEN /\ Return(p, "VALIDATION_ERROR", l0)
              /\ UNCHANGED clock
         ELSE \E t \in Instants :
                /\ clock' = t
                /\ Goto(p, "p_commit",
                        [l0 EXCEPT !.al_status = (CHOOSE a \in ex : TRUE).status,
                                   !.now = t, !.ev_now = t])
  /\ UNCHANGED <<dbVars, sent, rulesVars, compVars>>

\* the UPDATE of a patched alert: status when it differs from the loaded
\* one, and updated_at
StatusUpdated(a, l) ==
  [a EXCEPT !.status = IF l.new_status # l.al_status THEN l.new_status ELSE @,
            !.updated_at = l.now]

StatusChangeEvent(l) ==
  [alert_id |-> l.al_id, event_type |-> "STATUS_CHANGE", old_status |-> l.al_status,
   new_status |-> l.new_status, message |-> l.comment,
   actor |-> "demo_admin", request_id |-> l.call, created_at |-> l.ev_now, call |-> l.call]

\* patch_alert keeping one STATUS_CHANGE row per alert: the commit rewrites
\* the event appended last instead of adding one
PatchCommitRewritesLast(p) ==
  /\ pc[p] = "p_commit"
  /\ LET l == loc[p]
         before == CHOOSE a \in alerts : a.id = l.al_id
     IN  /\ alerts' = {IF a.id = l.al_id THEN StatusUpdated(a, l) ELSE a : a \in alerts}
         /\ events' = IF events = <<>> THEN <<StatusChangeEvent(l)>>
                       ELSE [events EXCEPT ![Len(events)] = StatusChangeEvent(l)]
         /\ Goto(p, "p_notify", [l EXCEPT !.pre_status = before.status,
                                          !.post_status = StatusUpdated(before, l).status])
  /\ UNCHANGED <<transactions, riskScores, sent, clock, rulesVars, compVars>>

\* db.commit() of patch_alert: the alert and its event in one transaction;
\* pre_status and post_status record the committed status around the commit
PatchCommit(p) ==
  /\ pc[p] = "p_commit"
  /\ LET l == loc[p]
         before == CHOOSE a \in alerts : a.id = l.al_id
     IN  /\ alerts' = {IF a.id = l.al_id THEN StatusUpdated(a, l) ELSE a : a \in alerts}
         /\ events' = Append(events, StatusChangeEvent(l))
         /\ Goto(p, "p_notify", [l EXCEPT !.pre_status = before.status,
                                          !.post_status = StatusUpdated(before, l).status])
  /\ UNCHANGED <<transactions, riskScores, sent, clock, rulesVars, compVars>>

\* db.refresh(alert), _safe_broadcast(ALERT_STATUS_CHANGED), the response
PatchNotify(p) ==
  /\ pc[p] = "p_notify"
  /\ \E d \in Dispatches :
       /\ sent' = Dispatched(d, [type |-> "ALERT_STATUS_CHANGED", call |-> loc[p].call,
                                 alert |-> loc[p].al_id])
       /\ Return(p, IF BroadcastRaises(d) THEN "INTERNAL_ERROR" ELSE "OK", loc[p])
  /\ UNCHANGED <<dbVars, clock, rulesVars, compVars>>

\* select(AlertEvent).where(alert_id == ...).order_by(asc(created_at)): the
\* positions in events of the rows of alert aid, by created_at; the order of
\* rows with the same created_at is the database's choice
Listings(aid) ==
  LET I == {k \in 1..Len(events) : events[k].alert_id = aid}
  IN  {q \in [1..Cardinality(I) -> I] :
         /\ \A a, b \in 1..Cardinality(I) : a # b => q[a] # q[b]
         /\ \A a, b \in 1..Cardinality(I) :
              a < b => events[q[a]].created_at <= events[q[b]].created_at}

\* GET /alerts/{id}/events: load the alert (404 when unknown), then select
\* its events
ListAlertEvents(p, aid) ==
  /\ CanStart(p)
  /\ LET l0 == [IdleLoc EXCEPT !.kind = "list", !.call = CallOf(p), !.al_id = aid]
     IN  IF NotFound({a \in alerts : a.id = aid})
         THEN Return(p, "NOT_FOUND", l0)
         ELSE \E q \in Listings(aid) : Return(p, "OK", [l0 EXCEPT !.listed = q])
  /\ UNCHANGED <<dbVars, sent, clock, rulesVars, compVars>>

\* ------------------------------------------------------------------- Spec
AlertIds == {a.id : a \in alerts} \cup {0}

Next ==
  \/ \E p \in Workers, tx \in TxIds, i \in ScoreInputs : ScoreBegin(p, tx, i[1], i[2])
  \/ \E p \in Workers : UpsertSelect(p)
  \/ \E p \in Workers : UpsertCommit(p)
  \/ \E p \in Workers : ScoreNotify(p)
  \/ \E p \in Workers : ScoreSelectAlert(p)
  \/ \E p \in Workers : ScoreCommitAlert(p)
  \/ \E p \in Workers : ScoreNotifyAlert(p)
  \/ \E p \in Workers, tx \in TxIds, i \in ScoreInputs : DashBegin(p, tx, i[1], i[2])
  \/ \E p \in Workers : DashSelectAlert(p)
  \/ \E p \in Workers : DashCommit(p)
  \/ \E p \in Workers, aid \in AlertIds, i \in PatchInputs : PatchBegin(p, aid, i[1], i[2])
  \/ \E p \in Workers : PatchCommit(p)
  \/ \E p \in Workers : PatchNotify(p)
  \/ \E p \in Workers, aid \in AlertIds : ListAlertEvents(p, aid)

Spec == Init /\ [][Next]_vars

\* -------------------------------------------------------------- SpecRules
\* feature sets around every threshold of the rules
FeatureGrid ==
  [amount : {59, 60, 120, 200, 250},
   hour : {3, 6, 12},
   category : {NoneStr, "grocery", "Electronics", "electronics"},
   arrondissement : {NoneStr, "Paris 1", "Saint-Denis"},
   is_online : BOOLEAN,
   merchant_tx_count_24h : {0, 3, 5, 6},
   avg_amount_category_7d : {<<>>, <<0>>, <<30>>, <<50>>, <<100>>}]

MIf40 == [kind |-> "iforest", raw |-> 40]
\* what the model registry may hold when the instance scores
RuleModels == {MAbsent, MXgb85, MIf40}

\* a ScoringService() instance and the feature set under test
InitRules ==
  /\ transactions = {"t1"}
  /\ riskScores = {} /\ alerts = {} /\ events = <<>>
  /\ sent = <<>>
  /\ clock = 0
  /\ pc = [p \in Workers |-> "idle"]
  /\ loc = [p \in Workers |-> IdleLoc]
  /\ resp = [p \in Workers |-> "none"]
  /\ svc = DefaultService
  /\ rf \in FeatureGrid
  /\ rres = <<>>
  /\ rn = 0
  /\ CompIdle

\* self.model_version = final_model_version, at the end of score_and_persist
VersionSet(self, f, m) ==
  [self EXCEPT !.model_version = Fuse(self, ApplyRules(self, f), InferScore(m)).model_version]

\* self._apply_rules(rf), called directly
RulesCall ==
  /\ rn < MaxRuleCalls
  /\ rres' = Append(rres, ApplyRules(svc, rf))
  /\ rn' = rn + 1
  /\ UNCHANGED <<dbVars, sent, clock, pc, loc, resp, svc, rf, compVars>>

\* self.score_and_persist on a transaction with features rf: the rules are
\* applied, then the instance keeps the version of the model that answered
ScoreOnInstance(m) ==
  /\ rn < MaxRuleCalls
  /\ rres' = Append(rres, ApplyRules(svc, rf))
  /\ svc' = VersionSet(svc, rf, m)
  /\ rn' = rn + 1
  /\ UNCHANGED <<dbVars, sent, clock, pc, loc, resp, rf, compVars>>

\* self.score_and_persist on a transaction with other features
ScoreOther(f, m) ==
  /\ rn < MaxRuleCalls
  /\ f # rf
  /\ svc' = VersionSet(svc, f, m)
  /\ rn' = rn + 1
  /\ UNCHANGED <<dbVars, sent, clock, pc, loc, resp, rf, rres, compVars>>

NextRules ==
  \/ RulesCall
  \/ \E m \in RuleModels : ScoreOnInstance(m)
  \/ \E f \in {FLow, FHigh}, m \in RuleModels : ScoreOther(f, m)

SpecRules == InitRules /\ [][NextRules]_vars

\* ---------------------------------------------------------- SpecBroadcast
\* ConnectionManager alone: WebSockets connect, close, stop reading and
\* leave, while each publisher runs one broadcast_json. The application's
\* variables stay at rest.
AppIdle ==
  /\ transactions = {"t1"}
  /\ riskScores = {} /\ alerts = {} /\ events = <<>>
  /\ sent = <<>>
  /\ clock = 0
  /\ pc = [p \in Workers |-> "idle"]
  /\ loc = [p \in Workers |-> IdleLoc]
  /\ resp = [p \in Workers |-> "none"]
  /\ svc = DefaultService
  /\ rf = FLow
  /\ rres = <<>>
  /\ rn = 0

InitBroadcast == AppIdle /\ CompIdle

Range(q) == {q[k] : k \in 1..Len(q)}

\* list(self._connections): the members of the set in some order
Orders(S) ==
  {q \in [1..Cardinality(S) -> S] : \A k, l \in 1..Cardinality(S) : k # l => q[k] # q[l]}

\* manager.connect(ws): ws.accept(), then the registration under the lock
Connect(o) ==
  /\ sock[o] = "new"
  /\ sock' = [sock EXCEPT ![o] = "open"]
  /\ connections' = connections \cup {o}
  /\ UNCHANGED <<bc, received, notWs>>

\* the peer closes or the connection is lost: every later send raises
Close(o) ==
  /\ sock[o] \in {"open", "stalled"}
  /\ sock' = [sock EXCEPT ![o] = "closed"]
  /\ UNCHANGED <<connections, bc, received, notWs>>

\* the peer stops reading while its connection stays up: a send to it
\* does not complete
Stall(o) ==
  /\ sock[o] = "open"
  /\ sock' = [sock EXCEPT ![o] = "stalled"]
  /\ UNCHANGED <<connections, bc, received, notWs>>

\* ws_alerts: receive_text raises on the closed socket and the route calls
\* manager.disconnect(ws)
Disconnect(o) ==
  /\ sock[o] = "closed"
  /\ o \in connections
  /\ connections' = connections \ {o}
  /\ UNCHANGED <<sock, bc, received, notWs>>

\* broadcast_json, lines 70-74: the snapshot under the lock, and the early
\* return on an empty snapshot
Snapshot(b, order) ==
  /\ bc[b].pc = "committed"
  /\ order \in Orders(connections)
  /\ bc' = [bc EXCEPT ![b] = [@ EXCEPT !.conns = order,
                                       !.pc = IF order = <<>> THEN "returned" ELSE "loop"]]
  /\ UNCHANGED <<connections, sock, received, notWs>>

\* the loop moves to the next connection; after the last one the purge
\* runs when some send failed
Advance(c) ==
  LET n == [c EXCEPT !.i = @ + 1]
  IN  IF n.i <= Len(n.conns) THEN n
      ELSE [n EXCEPT !.pc = IF n.dead = <<>> THEN "returned" ELSE "purge"]

\* the loop body without its try ... except: the error leaves broadcast_json
SendFailedUncaught(c, o) == [c EXCEPT !.pc = "raised"]

\* except Exception: dead.append(ws)
SendFailed(c, o) == Advance([c EXCEPT !.dead = Append(@, o)])

\* one turn of the loop of lines 76-81: await ws.send_json(payload). The
\* await completes on an open socket, raises on a closed one, and stays
\* pending on a socket whose peer does not read.
Send(b) ==
  /\ bc[b].pc = "loop"
  /\ LET o == bc[b].conns[bc[b].i]
     IN  /\ sock[o] \in {"open", "closed"}
         /\ IF sock[o] = "open"
            THEN /\ received' = [received EXCEPT ![o] = @ \cup {b}]
                 /\ bc' = [bc EXCEPT ![b] = Advance(@)]
            ELSE /\ received' = received
                 /\ bc' = [bc EXCEPT ![b] = SendFailed(@, o)]
  /\ UNCHANGED <<connections, sock, notWs>>

\* lines 83-87: the dead connections are discarded under the lock
Purge(b) ==
  /\ bc[b].pc = "purge"
  /\ connections' = connections \ Range(bc[b].dead)
  /\ bc' = [bc EXCEPT ![b] = [@ EXCEPT !.pc = "returned"]]
  /\ UNCHANGED <<sock, received, notWs>>

NextBroadcast ==
  \/ \E o \in Observers : Connect(o)
  \/ \E o \in Observers : Close(o)
  \/ \E o \in Observers : Stall(o)
  \/ \E o \in Observers : Disconnect(o)
  \/ \E b \in Publishers : \E q \in Orders(connections) : Snapshot(b, q)
  \/ \E b \in Publishers : Send(b)
  \/ \E b \in Publishers : Purge(b)

SpecBroadcast == InitBroadcast /\ [][NextBroadcast]_vars

\* The event loop runs every task that can run: a broadcast_json whose next
\* step is enabled takes it. Nothing makes a WebSocket connect, close or
\* resume.
SpecBroadcastFair ==
  /\ SpecBroadcast
  /\ \A b \in Publishers :
       /\ WF_vars(\E q \in Orders(connections) : Snapshot(b, q))
       /\ WF_vars(Send(b))
       /\ WF_vars(Purge(b))


\* --------------------------------------------------------------- SpecRate
\* rate_limit_middleware and InMemoryRateLimiter alone: requests arrive
\* under one configuration while the time advances.
RpmSettings == {-1, 1, 2}

\* the seconds that pass between two requests
Delays == {1, 59, 60}

InitRate ==
  /\ AppIdle
  /\ WsIdle
  /\ ScIdle
  /\ FbIdle
  /\ RgIdle
  /\ settings \in [RATE_LIMIT_ENABLED : BOOLEAN, RATE_LIMIT_RPM : RpmSettings]
  /\ buckets = [k \in Keys |-> NoBucket]
  /\ rtime = 0
  /\ rticks = 0
  /\ rlog = <<>>

\* limit = int(getattr(settings, "RATE_LIMIT_RPM", 120) or 120)
LimitOf(st) == IF st.RATE_LIMIT_RPM = 0 THEN DEFAULT_RPM ELSE st.RATE_LIMIT_RPM

\* request.url.path.startswith(("/transactions", "/alerts", "/score"))
Protected(path) == path \in {"/transactions", "/alerts", "/score"}

\* the request goes on to call_next
Passed == [code |-> "PASSED", status |-> 0, limit_rpm |-> 0]

\* AppHTTPException(429, "RATE_LIMITED", ..., details={"limit_rpm": limit}),
\* turned into the error payload by the middleware
Rejected(limit) == [code |-> "RATE_LIMITED", status |-> 429, limit_rpm |-> limit]

\* the test of line 81 taken one request too early
OverLimitInclusive(count, limit) == count >= limit

\* the test of line 81 against twice the cap
OverLimitDoubled(count, limit) == count > 2 * limit

\* if bucket.count > limit
OverLimit(count, limit) == count > limit

\* a limiter in which a rejected request restarts the window
CheckRestartsOnReject(bk, st, k, now) ==
  IF ~st.RATE_LIMIT_ENABLED \/ LimitOf(st) <= 0
  THEN [buckets |-> bk, answer |-> Passed]
  ELSE IF bk[k] = NoBucket \/ now - bk[k].window_start >= WINDOW
       THEN [buckets |-> [bk EXCEPT ![k] = [window_start |-> now, count |-> 1]],
             answer |-> Passed]
       ELSE LET c == bk[k].count + 1
            IN  IF OverLimit(c, LimitOf(st))
                THEN [buckets |-> [bk EXCEPT ![k] = [window_start |-> now, count |-> c]],
                      answer |-> Rejected(LimitOf(st))]
                ELSE [buckets |-> [bk EXCEPT ![k] = [@ EXCEPT !.count = c]],
                      answer |-> Passed]

\* InMemoryRateLimiter.check for key k at time now: the buckets it leaves
\* and its answer
Check(bk, st, k, now) ==
  IF ~st.RATE_LIMIT_ENABLED \/ LimitOf(st) <= 0
  THEN [buckets |-> bk, answer |-> Passed]
  ELSE IF bk[k] = NoBucket \/ now - bk[k].window_start >= WINDOW
       THEN [buckets |-> [bk EXCEPT ![k] = [window_start |-> now, count |-> 1]],
             answer |-> Passed]
       ELSE LET c == bk[k].count + 1
            IN  [buckets |-> [bk EXCEPT ![k] = [@ EXCEPT !.count = c]],
                 answer |-> IF OverLimit(c, LimitOf(st))
                            THEN Rejected(LimitOf(st)) ELSE Passed]

\* rate_limit_middleware on request r
RateLimitMiddleware(r) ==
  /\ Len(rlog) < MaxRequests
  /\ LET res == IF r.method = "OPTIONS" \/ ~Protected(r.path)
                THEN [buckets |-> buckets, answer |-> Passed]
                ELSE Check(buckets, settings, KeyOf(r), rtime)
     IN  /\ buckets' = res.buckets
         /\ rlog' = Append(rlog, [key |-> KeyOf(r), at |-> rtime, answer |-> res.answer])
  /\ UNCHANGED <<settings, rtime, rticks, notRl>>

\* time passes
Tick(d) ==
  /\ rticks < MaxTicks
  /\ rtime' = rtime + d
  /\ rticks' = rticks + 1
  /\ UNCHANGED <<settings, buckets, rlog, notRl>>

NextRate ==
  \/ \E r \in Requests : RateLimitMiddleware(r)
  \/ \E d \in Delays : Tick(d)

SpecRate == InitRate /\ [][NextRate]_vars


\* ------------------------------------------------------------ SpecScoring
\* score_and_persist alone, called in sequence on two ScoringService
\* objects, with every state of the model registry.
ScoringModels == {MAbsent, MRaise, MXgb50, MXgb85, MIf40}

\* an isolation forest whose normalised anomaly is over 1, and one under 0
MIfOver == [kind |-> "iforest", raw |-> 150]
MIfUnder == [kind |-> "iforest", raw |-> -20]
\* features on which the seven conditions fire, the rule score 83
FSeven == [amount |-> 60, hour |-> 6, category |-> "Electronics",
           arrondissement |-> "Saint-Denis", is_online |-> TRUE,
           merchant_tx_count_24h |-> 3, avg_amount_category_7d |-> <<30>>]
\* (features, registry) met by a score_and_persist call
ScoringInputs ==
  ({FLow, FHigh} \X ScoringModels)
    \cup {<<FSeven, MAbsent>>, <<FSeven, MXgb50>>, <<FLow, MIfOver>>, <<FLow, MIfUnder>>}

InitScoring == AppIdle /\ CompIdle

\* score_and_persist without the try ... except of lines 177-196
ModelErrorEscapesUncaught(ml) == ml.status = "raise"

\* try: ... infer_score ... except Exception: pass
ModelErrorEscapes(ml) == FALSE

\* one score_and_persist(db, tx) on object i, the features of tx being f and
\* the registry m: the row written by the upsert, the ScoringResult
\* returned, and the version the object keeps
ScoreAndPersist(i, tx, f, m) ==
  /\ Len(calls) < MaxScoreCalls
  /\ LET self == instances[i]
         rules == ApplyRules(self, f)
         ml == InferScore(m)
         fused == Fuse(self, rules, ml)
         factors == FuseFactors(rules, ml)
         level == RiskLevel(fused.score)
         row == [score |-> fused.score, model_version |-> fused.model_version,
                 factors |-> factors, risk_level |-> level,
                 rules_score |-> rules.score, final_score |-> fused.score]
         result == [score |-> fused.score, risk_level |-> level,
                    factors |-> factors, model_version |-> fused.model_version]
     IN  IF ModelErrorEscapes(ml)
         THEN /\ calls' = Append(calls, [instance |-> i, tx |-> tx, f |-> f, m |-> m,
                                         raised |-> TRUE, row |-> NoRow, result |-> NoRow])
              /\ UNCHANGED <<instances, stored>>
         ELSE /\ stored' = [stored EXCEPT ![tx] = row]
              /\ instances' = [instances EXCEPT ![i] = VersionSet(self, f, m)]
              /\ calls' = Append(calls, [instance |-> i, tx |-> tx, f |-> f, m |-> m,
                                         raised |-> FALSE, row |-> row,
                                         result |-> result])
  /\ UNCHANGED notSc

NextScoring ==
  \E i \in Instances, tx \in TxIds, in \in ScoringInputs :
    ScoreAndPersist(i, tx, in[1], in[2])

SpecScoring == InitScoring /\ [][NextScoring]_vars


\* ----------------------------------------------------------- SpecFeatures
\* FeatureBuilder.build alone, on the transaction BuiltTx, while other
\* transactions are ingested. Times are hours.
\* The transactions that may be ingested: over 7 days before BuiltTx (10),
\* within its 7 days (100), at and within its 24 hours (176, 190), and
\* after it (210); at its merchant or another, in its category or another.
Ingestable ==
  [merchant_name : {"m1", "m2"}, merchant_category : {"c1", "c2"},
   amount : {60, 240}, occurred_at : {10, 100, 176, 190, 210}]

InitFeatures == AppIdle /\ CompIdle

RECURSIVE SumAmounts(_)
SumAmounts(S) ==
  IF S = {} THEN 0
  ELSE LET x == CHOOSE y \in S : TRUE IN x.amount + SumAmounts(S \ {x})

\* the rows a window ending at the transaction would keep
UpTo(tx, rows) == {x \in rows : x.occurred_at <= tx.occurred_at}

\* FeatureBuilder.build(db, tx) on table L: the count over 24 hours at the
\* merchant, and func.avg over 7 days in the category, kept as the pair
\* (sum, number of rows), None when no row is selected. The statements
\* bound the time by .where(occurred_at >= since) alone.
Build(L, tx) ==
  LET since_24h == tx.occurred_at - HOURS_24
      since_7d == tx.occurred_at - DAYS_7 * HOURS_24
      freq == {x \in L : /\ x.merchant_name = tx.merchant_name
                         /\ x.occurred_at >= since_24h}
      cat == {x \in L : /\ x.merchant_category = tx.merchant_category
                        /\ x.occurred_at >= since_7d}
  IN  [hour |-> tx.occurred_at % 24,
       amount |-> tx.amount,
       category |-> tx.merchant_category,
       merchant_name |-> tx.merchant_name,
       merchant_tx_count_24h |-> Cardinality(freq),
       avg_amount_category_7d |->
         IF cat = {} THEN <<>> ELSE <<[sum |-> SumAmounts(cat), n |-> Cardinality(cat)]>>]

\* POST /transactions: a transaction is committed
Ingest(x) ==
  /\ Cardinality(ledger) <= MaxIngested
  /\ x \notin ledger
  /\ ledger' = ledger \cup {x}
  /\ UNCHANGED <<built, notFb>>

\* build(db, BuiltTx) on the table as it stands
BuildCall ==
  /\ Len(built) < MaxBuilds
  /\ built' = Append(built, [table |-> ledger, features |-> Build(ledger, BuiltTx)])
  /\ UNCHANGED <<ledger, notFb>>

NextFeatures ==
  \/ \E x \in Ingestable : Ingest(x)
  \/ BuildCall

SpecFeatures == InitFeatures /\ [][NextFeatures]_vars


\* ------------------------------------------------------------ SpecRequest
\* One score_one call that publishes both payloads: b1 is its broadcast of
\* SCORE_COMPUTED, b2 its broadcast of ALERT_CREATED. WebSockets connect,
\* close, stop reading and leave at any time of the request.
InitRequest == AppIdle /\ CompIdle

\* the first broadcast started with asyncio.create_task and not awaited
PrecedingDetached(b) == TRUE

\* score_one awaits _ws_broadcast(SCORE_COMPUTED), which awaits
\* broadcast_json, before it goes on to the alert and to
\* _ws_broadcast(ALERT_CREATED)
PrecedingReturned(b) == b = "b2" => bc["b1"].pc \in {"returned", "raised"}

\* the handler reaches the _ws_broadcast of payload b
RequestBroadcast(b, order) ==
  /\ PrecedingReturned(b)
  /\ Snapshot(b, order)

NextRequest ==
  \/ \E o \in Observers : Connect(o)
  \/ \E o \in Observers : Close(o)
  \/ \E o \in Observers : Stall(o)
  \/ \E o \in Observers : Disconnect(o)
  \/ \E b \in Publishers : \E q \in Orders(connections) : RequestBroadcast(b, q)
  \/ \E b \in Publishers : Send(b)
  \/ \E b \in Publishers : Purge(b)

SpecRequest == InitRequest /\ [][NextRequest]_vars

\* ----------------------------------------------------------- SpecRegistry
\* ConnectionManager with its lock: each async with self._lock is an
\* acquire step and a step that runs the body and releases; every await of
\* ws_alerts, broadcast_json and close_all is a step of its own. One
\* broadcast_json and one close_all run beside the routes of the clients.
InitRegistry == AppIdle /\ CompIdle

\* async with self._lock: entered by task t when no task is inside
Acquired(t) == lock = "free" /\ lock' = t
\* the end of the async with block of task t
Released(t) == lock = t /\ lock' = "free"
\* ws_alerts reaches manager.connect(ws): await ws.accept(), which raises
\* when the transport is already lost
WsAccept(o) ==
  /\ route[o] = "new"
  /\ link[o] # "stalled"
  /\ route' = [route EXCEPT ![o] = IF link[o] = "up" THEN "c_acquire" ELSE "ended"]
  /\ UNCHANGED <<registered, lock, link, pub, got, closer, notRg>>

\* connect, line 50: async with self._lock
ConnectAcquire(o) ==
  /\ route[o] = "c_acquire"
  /\ Acquired(o)
  /\ route' = [route EXCEPT ![o] = "c_add"]
  /\ UNCHANGED <<registered, link, pub, got, closer, notRg>>

\* connect, line 51: self._connections.add(ws), and the lock released
ConnectAdd(o) ==
  /\ route[o] = "c_add"
  /\ Released(o)
  /\ registered' = registered \cup {o}
  /\ route' = [route EXCEPT ![o] = "ack"]
  /\ UNCHANGED <<link, pub, got, closer, notRg>>

\* ws_alerts, line 34: await ws.send_json(WS_CONNECTED), outside the try:
\* on a lost transport the exception leaves ws_alerts
AckSend(o) ==
  /\ route[o] = "ack"
  /\ link[o] # "stalled"
  /\ route' = [route EXCEPT ![o] = IF link[o] = "up" THEN "recv" ELSE "ended"]
  /\ UNCHANGED <<registered, lock, link, pub, got, closer, notRg>>

\* ws_alerts, lines 36-47: receive_text (or the PONG send) raises on the
\* lost transport and the except branch calls manager.disconnect(ws)
Receive(o) ==
  /\ route[o] = "recv"
  /\ link[o] = "down"
  /\ route' = [route EXCEPT ![o] = "d_acquire"]
  /\ UNCHANGED <<registered, lock, link, pub, got, closer, notRg>>

\* disconnect, line 56: async with self._lock
DisconnectAcquire(o) ==
  /\ route[o] = "d_acquire"
  /\ Acquired(o)
  /\ route' = [route EXCEPT ![o] = "d_discard"]
  /\ UNCHANGED <<registered, link, pub, got, closer, notRg>>

\* disconnect, line 57: self._connections.discard(ws), and the lock released
DisconnectDiscard(o) ==
  /\ route[o] = "d_discard"
  /\ Released(o)
  /\ registered' = registered \ {o}
  /\ route' = [route EXCEPT ![o] = "ended"]
  /\ UNCHANGED <<link, pub, got, closer, notRg>>

\* the client leaves or the transport is lost: sends and receives raise
Drop(o) ==
  /\ link[o] \in {"up", "stalled"}
  /\ link' = [link EXCEPT ![o] = "down"]
  /\ UNCHANGED <<registered, lock, route, pub, got, closer, notRg>>

\* the client stops reading: a send to it stays pending
Stop(o) ==
  /\ link[o] = "up"
  /\ route[o] # "new"
  /\ link' = [link EXCEPT ![o] = "stalled"]
  /\ UNCHANGED <<registered, lock, route, pub, got, closer, notRg>>

\* a handler that committed calls broadcast_json
BroadcastCall ==
  /\ pub.pc = "idle"
  /\ pub' = [pub EXCEPT !.pc = "s_acquire"]
  /\ UNCHANGED <<registered, lock, link, route, got, closer, notRg>>

\* broadcast_json, line 70: async with self._lock
SnapshotAcquire ==
  /\ pub.pc = "s_acquire"
  /\ Acquired("pub")
  /\ pub' = [pub EXCEPT !.pc = "s_snap"]
  /\ UNCHANGED <<registered, link, route, got, closer, notRg>>

\* the snapshot taken and the lock kept through the fan-out
SnapshotTakeKeepsLock(order) ==
  /\ pub.pc = "s_snap"
  /\ order \in Orders(registered)
  /\ lock = "pub" /\ lock' = "pub"
  /\ pub' = [pub EXCEPT !.conns = order,
                        !.pc = IF order = <<>> THEN "returned" ELSE "loop"]
  /\ UNCHANGED <<registered, link, route, got, closer, notRg>>

\* broadcast_json, lines 71-74: conns = list(self._connections), the lock
\* released, and the return on an empty list
SnapshotTake(order) ==
  /\ pub.pc = "s_snap"
  /\ order \in Orders(registered)
  /\ Released("pub")
  /\ pub' = [pub EXCEPT !.conns = order,
                        !.pc = IF order = <<>> THEN "returned" ELSE "loop"]
  /\ UNCHANGED <<registered, link, route, got, closer, notRg>>

\* after the last connection of the loop: the purge when some send failed
Moved(c) ==
  LET n == [c EXCEPT !.i = @ + 1]
  IN  IF n.i <= Len(n.conns) THEN n
      ELSE [n EXCEPT !.pc = IF n.dead = <<>> THEN "returned" ELSE "p_acquire"]

\* broadcast_json, lines 76-81: one await ws.send_json(payload); it
\* completes on a transport that is up, raises on a lost one (the
\* connection goes to dead) and stays pending while the client does not
\* read
FanOutSend ==
  /\ pub.pc = "loop"
  /\ LET o == pub.conns[pub.i]
     IN  /\ link[o] # "stalled"
         /\ IF link[o] = "up"
            THEN /\ got' = got \cup {o}
                 /\ pub' = Moved(pub)
            ELSE /\ got' = got
                 /\ pub' = Moved([pub EXCEPT !.dead = Append(@, o)])
  /\ UNCHANGED <<registered, lock, link, route, closer, notRg>>

\* broadcast_json, line 84: async with self._lock
PurgeAcquire ==
  /\ pub.pc = "p_acquire"
  /\ Acquired("pub")
  /\ pub' = [pub EXCEPT !.pc = "p_discard"]
  /\ UNCHANGED <<registered, link, route, got, closer, notRg>>

\* broadcast_json, lines 85-86: the dead connections discarded, the lock
\* released
PurgeDiscard ==
  /\ pub.pc = "p_discard"
  /\ Released("pub")
  /\ registered' = registered \ Range(pub.dead)
  /\ pub' = [pub EXCEPT !.pc = "returned"]
  /\ UNCHANGED <<link, route, got, closer, notRg>>

\* close_all is called
CloseAllCall ==
  /\ closer.pc = "idle"
  /\ closer' = [closer EXCEPT !.pc = "x_acquire"]
  /\ UNCHANGED <<registered, lock, link, route, pub, got, notRg>>

\* close_all, line 95: async with self._lock
CloseAllAcquire ==
  /\ closer.pc = "x_acquire"
  /\ Acquired("closer")
  /\ closer' = [closer EXCEPT !.pc = "x_clear"]
  /\ UNCHANGED <<registered, link, route, pub, got, notRg>>

\* close_all, lines 96-97: the snapshot, the set cleared, the lock released
CloseAllClear ==
  /\ closer.pc = "x_clear"
  /\ Released("closer")
  /\ registered' = {}
  /\ closer' = [pc |-> IF registered = {} THEN "done" ELSE "closing", conns |-> registered]
  /\ UNCHANGED <<link, route, pub, got, notRg>>

\* close_all, lines 99-103: await ws.close() on one connection of the
\* snapshot, an exception swallowed
CloseAllClose(o) ==
  /\ closer.pc = "closing"
  /\ o \in closer.conns
  /\ link' = [link EXCEPT ![o] = "down"]
  /\ closer' = [pc |-> IF closer.conns = {o} THEN "done" ELSE "closing",
                conns |-> closer.conns \ {o}]
  /\ UNCHANGED <<registered, lock, route, pub, got, notRg>>

\* the steps of the ws_alerts call of client o
RouteStep(o) ==
  \/ WsAccept(o)
  \/ ConnectAcquire(o)
  \/ ConnectAdd(o)
  \/ AckSend(o)
  \/ Receive(o)
  \/ DisconnectAcquire(o)
  \/ DisconnectDiscard(o)

\* the steps of a broadcast_json that was called
BroadcastStep ==
  \/ SnapshotAcquire
  \/ \E q \in Orders(registered) : SnapshotTake(q)
  \/ FanOutSend
  \/ PurgeAcquire
  \/ PurgeDiscard

\* the steps of a close_all that was called
CloseAllStep ==
  \/ CloseAllAcquire
  \/ CloseAllClear
  \/ \E o \in Clients : CloseAllClose(o)

NextRegistry ==
  \/ \E o \in Clients : RouteStep(o)
  \/ \E o \in Clients : Drop(o)
  \/ \E o \in Clients : Stop(o)
  \/ BroadcastCall
  \/ BroadcastStep
  \/ CloseAllCall
  \/ CloseAllStep

SpecRegistry == InitRegistry /\ [][NextRegistry]_vars

\* The event loop runs every task that can run: a ws_alerts call, a
\* broadcast_json and a close_all that can take a step take it. Nothing
\* makes a client leave or stop reading, and nothing makes a handler call
\* broadcast_json or close_all.
SpecRegistryFair ==
  /\ SpecRegistry
  /\ \A o \in Clients : WF_vars(RouteStep(o))
  /\ WF_vars(BroadcastStep)
  /\ WF_vars(CloseAllStep)


\* --------------------------------------------------------------- SpecGate
\* rate_limit_middleware in front of POST /score: the requests of one
\* caller go through the limiter, capped at one request per window, and
\* the admitted ones run score_one.
GateSettings == [RATE_LIMIT_ENABLED |-> TRUE, RATE_LIMIT_RPM |-> 1]
GateRequest == [ip |-> "ip1", method |-> "POST", path |-> "/score"]

\* (features, model) of the gated requests: under and over the threshold
GateInputs == {<<FLow, MAbsent>>, <<FHigh, MAbsent>>}

InitGate ==
  /\ transactions = {"t1"}
  /\ \/ riskScores = {} /\ alerts = {} /\ events = <<>>
     \/ riskScores = {SeedRiskScore} /\ alerts = {SeedAlert} /\ events = <<SeedEvent>>
  /\ sent = <<>>
  /\ clock = 0
  /\ pc = [p \in Workers |-> "idle"]
  /\ loc = [p \in Workers |-> IdleLoc]
  /\ resp = [p \in Workers |-> "none"]
  /\ svc = DefaultService
  /\ rf = FLow
  /\ rres = <<>>
  /\ rn = 0
  /\ WsIdle /\ ScIdle /\ FbIdle /\ RgIdle
  /\ settings = GateSettings
  /\ buckets = [k \in Keys |-> NoBucket]
  /\ rtime = 0
  /\ rticks = 0
  /\ rlog = <<>>

\* a middleware that goes on to call_next whatever check answered
CallNextAlways(answer) == TRUE

\* rate_limit_middleware: call_next(request) is reached when check raised
\* nothing; on AppHTTPException the error payload is returned instead
CallNext(answer) == answer = Passed

\* POST /score through rate_limit_middleware: check, then either the 429
\* payload or score_one up to its first await
GateScore(p, tx, f, m) ==
  /\ CanStart(p)
  /\ LET res == Check(buckets, settings, KeyOf(GateRequest), rtime)
         l0 == [IdleLoc EXCEPT !.kind = "score", !.call = CallOf(p), !.tx = tx]
     IN  /\ buckets' = res.buckets
         /\ rlog' = Append(rlog, [key |-> KeyOf(GateRequest), at |-> rtime,
                                  answer |-> res.answer])
         /\ IF CallNext(res.answer)
            THEN IF NotFound({t \in transactions : t = tx})
                 THEN Return(p, "NOT_FOUND", l0)
                 ELSE Goto(p, "u_select", Scored(p, "score", tx, f, m))
            ELSE Return(p, "RATE_LIMITED", l0)
  /\ UNCHANGED <<dbVars, sent, clock, rulesVars, settings, rtime, rticks,
                 wsVars, scVars, fbVars, rgVars>>

NextGate ==
  \/ \E p \in Workers, i \in GateInputs : GateScore(p, "t1", i[1], i[2])
  \/ \E d \in Delays : Tick(d)
  \/ \E p \in Workers : UpsertSelect(p)
  \/ \E p \in Workers : UpsertCommit(p)
  \/ \E p \in Workers : ScoreNotify(p)
  \/ \E p \in Workers : ScoreSelectAlert(p)
  \/ \E p \in Workers : ScoreCommitAlert(p)
  \/ \E p \in Workers : ScoreNotifyAlert(p)

SpecGate == InitGate /\ [][NextGate]_vars


\* ------------------------------------------------------------- SpecWindow
\* InMemoryRateLimiter under load: the limiter is enabled with a cap of 1
\* or 2 and two callers send POST /score while the time advances.
MaxArrivals == 4

WindowCallers ==
  {[ip |-> "ip1", method |-> "POST", path |-> "/score"],
   [ip |-> "ip2", method |-> "POST", path |-> "/score"]}

InitWindow ==
  /\ AppIdle
  /\ WsIdle /\ ScIdle /\ FbIdle /\ RgIdle
  /\ settings \in [RATE_LIMIT_ENABLED : {TRUE}, RATE_LIMIT_RPM : {1, 2}]
  /\ buckets = [k \in Keys |-> NoBucket]
  /\ rtime = 0
  /\ rticks = 0
  /\ rlog = <<>>

\* one POST /score of caller r reaches rate_limit_middleware
Arrive(r) ==
  /\ Len(rlog) < MaxArrivals
  /\ LET res == Check(buckets, settings, KeyOf(r), rtime)
     IN  /\ buckets' = res.buckets
         /\ rlog' = Append(rlog, [key |-> KeyOf(r), at |-> rtime, answer |-> res.answer])
  /\ UNCHANGED <<settings, rtime, rticks, notRl>>

NextWindow ==
  \/ \E r \in WindowCallers : Arrive(r)
  \/ \E d \in Delays : Tick(d)

SpecWindow == InitWindow /\ [][NextWindow]_vars


\* ------------------------------------------------------------- properties
\* the alert_events rows of alert aid with type ty written by request c
EventsOf(aid, ty, c) ==
  {i \in DOMAIN events : /\ events[i].alert_id = aid
                         /\ events[i].event_type = ty
                         /\ events[i].call = c}

\* C1: in every reachable state, under every interleaving of scoring calls,
\* no two Alert rows have the same risk_score_id.
AtMostOneAlertPerRiskScore ==
  \A a, b \in alerts : a.risk_score_id = b.risk_score_id => a = b

\* Two POST /score calls for the same transaction, both at or over the
\* threshold, both found no alert and both tried to insert one: one row exists.
TwoCallsRacedOnAlertInsert ==
  \E p, q \in Workers :
    /\ p # q
    /\ loc[p].kind = "score" /\ loc[q].kind = "score"
    /\ loc[p].tx = loc[q].tx
    /\ loc[p].final >= ALERT_THRESHOLD /\ loc[q].final >= ALERT_THRESHOLD
    /\ loc[p].pend = "insert" /\ loc[q].pend = "insert"
    /\ pc[p] = "done" /\ pc[q] = "done"
    /\ Cardinality({a \in alerts : a.transaction_id = loc[p].tx}) = 1

\* C2: in every reachable state, under every interleaving of scoring calls,
\* no two RiskScore rows have the same transaction_id; a rescoring overwrites
\* the row of the transaction.
AtMostOneRiskScorePerTransaction ==
  \A r, q \in riskScores : r.transaction_id = q.transaction_id => r = q

\* One call inserted the RiskScore of a transaction and another call, with a
\* different score, found it and overwrote it.
FirstScoringThenRescoring ==
  \E p, q \in Workers :
    /\ p # q
    /\ loc[p].tx = loc[q].tx
    /\ loc[p].rs_id # 0 /\ loc[p].ex_id = 0
    /\ loc[q].rs_id # 0 /\ loc[q].ex_id = loc[p].rs_id
    /\ loc[q].final # loc[p].final
    /\ \E r \in riskScores : /\ r.transaction_id = loc[p].tx
                             /\ r.score = loc[q].final
                             /\ r.f_final = loc[q].final

\* C3: a scoring call that loses the race on a uniqueness constraint answers
\* normally: no request ever ends with an error other than a validation
\* error or not-found.
LosingCallFailsSoftly ==
  \A p \in Workers : resp[p] \in {"none", "OK", "VALIDATION_ERROR", "NOT_FOUND"}

\* C4: the score persisted for a transaction is the maximum of the rule
\* score and the model score when the model answered, the rule score
\* otherwise: in every RiskScore row the score is not under the rules_score
\* the row records.
PersistedScoreAtLeastRuleScore ==
  \A r \in riskScores : r.score >= r.f_rules

\* C5: every result of the rule scorer on a feature set has a score in
\* 0..100 and at most five factors, and all the calls made on the feature
\* set returned the same result, whatever the instance went through between
\* them.
RuleScoreBoundedAndPure ==
  \A i \in 1..Len(rres) :
    /\ rres[i].score \in 0..100
    /\ Len(rres[i].factors) <= MAX_FACTORS
    /\ rres[i] = rres[1]

\* Two calls on a feature set whose increments pass 100, the second on an
\* instance whose model_version has changed since construction.
RulesCalledTwiceOverHundred ==
  /\ Len(rres) = 2
  /\ svc.model_version # DefaultService.model_version
  /\ BASE_SCORE + SumInc(FiredRules(svc, rf)) > 100
  /\ rres[2].score = 100

\* a comment that is missing, empty or blank
BlankComments == {NoneStr, "", "  "}

\* C6: a PATCH to CLOTURE whose comment is missing, empty or blank on an
\* existing alert ends with a validation error and never reaches the commit;
\* the step that rejects it changes no alert, appends no event and sends no
\* notification.
ClosingWithoutCommentRejected ==
  /\ [](\A p \in Workers :
          (/\ loc[p].kind = "patch"
           /\ loc[p].new_status = "CLOTURE"
           /\ loc[p].comment \in BlankComments)
          => /\ pc[p] = "done"
             /\ resp[p] \in {"VALIDATION_ERROR", "NOT_FOUND"}
             /\ EventsOf(loc[p].al_id, "STATUS_CHANGE", loc[p].call) = {})
  /\ [][\A p \in Workers :
          (resp'[p] = "VALIDATION_ERROR" /\ resp[p] # "VALIDATION_ERROR")
          => (alerts' = alerts /\ events' = events /\ sent' = sent)]_vars

\* A PATCH to CLOTURE with a blank comment was rejected on an existing alert.
BlankClosingRejected ==
  \E p \in Workers :
    /\ resp[p] = "VALIDATION_ERROR"
    /\ loc[p].comment = "  "
    /\ \E a \in alerts : a.id = loc[p].al_id /\ a.status # "CLOTURE"

\* C7: every PATCH that has committed wrote exactly one STATUS_CHANGE event,
\* whose old_status is the status the alert had just before the commit and
\* whose new_status is the status it had just after.
StatusChangeEventMatchesTransition ==
  \A p \in Workers :
    (loc[p].kind = "patch" /\ pc[p] \in {"p_notify", "done"} /\ resp[p] \in {"none", "OK"})
    => /\ Cardinality(EventsOf(loc[p].al_id, "STATUS_CHANGE", loc[p].call)) = 1
       /\ \A i \in EventsOf(loc[p].al_id, "STATUS_CHANGE", loc[p].call) :
            /\ events[i].old_status = loc[p].pre_status
            /\ events[i].new_status = loc[p].post_status

\* C8: a step of a scoring call whose final score is under the threshold
\* leaves every alert and the event list as they were.
NoAlertActionUnderThreshold ==
  [][\A p \in Workers :
       (/\ pc'[p] # pc[p]
        /\ loc'[p].kind \in {"score", "dash"}
        /\ loc'[p].final < ALERT_THRESHOLD)
       => (alerts' = alerts /\ events' = events)]_vars

\* A POST /score under the threshold has answered for a transaction that has
\* an alert.
RescoredUnderThresholdWithAlert ==
  \E p \in Workers :
    /\ loc[p].kind = "score"
    /\ pc[p] = "done" /\ resp[p] = "OK"
    /\ loc[p].rs_id # 0
    /\ loc[p].final < ALERT_THRESHOLD
    /\ \E a \in alerts : a.transaction_id = loc[p].tx /\ a.score_snapshot >= ALERT_THRESHOLD

\* C9: a scoring call at or over the threshold that found an alert whose
\* snapshot differs from the score has, once it answered, appended exactly
\* one SCORE_UPDATED event for it; one that found an equal snapshot appended
\* none; neither changed the status it found unless a PATCH did.
SnapshotUpdateLeavesOneEvent ==
  \A p \in Workers :
    (loc[p].kind \in {"score", "dash"} /\ pc[p] = "done" /\ resp[p] = "OK")
    => /\ loc[p].pend = "update"
          => Cardinality(EventsOf(loc[p].al_id, "SCORE_UPDATED", loc[p].call)) = 1
       /\ loc[p].pend = "noop"
          => EventsOf(loc[p].al_id, "SCORE_UPDATED", loc[p].call) = {}

\* C10: every alert has a status of AlertStatus and exactly one CREATED
\* event, with no old_status and new_status A_TRAITER.
AlertsCreatedToReview ==
  \A a \in alerts :
    /\ a.status \in AlertStatus
    /\ Cardinality({i \in DOMAIN events : /\ events[i].alert_id = a.id
                                          /\ events[i].event_type = "CREATED"
                                          /\ events[i].old_status = NoStatus
                                          /\ events[i].new_status = "A_TRAITER"}) = 1

\* C11: the alert write of a scoring call is committed together with the
\* call's RiskScore: in no reachable state has a call committed a RiskScore
\* whose final score reaches the threshold while no alert exists for that
\* RiskScore.
ScoreCommittedWithItsAlert ==
  \A p \in Workers :
    (/\ loc[p].kind \in {"score", "dash"}
     /\ loc[p].rs_id # 0
     /\ MeetsThreshold(loc[p].final))
    => \E a \in alerts : a.risk_score_id = loc[p].rs_id

\* C12: a notification that cannot be dispatched (no manager, payload that
\* does not serialise, a send that raises) never fails the scoring or the
\* status change: the step that publishes leaves the database as committed
\* and continues to the same position and response as when the payload is
\* delivered.
NotificationFailureAbsorbed ==
  [][\A p \in Workers :
       (pc[p] \in {"s_notify", "s_notify_alert", "p_notify"} /\ pc'[p] # pc[p])
       => /\ UNCHANGED dbVars
          /\ loc'[p] = loc[p]
          /\ pc'[p] = (IF /\ pc[p] = "s_notify"
                          /\ loc[p].rs_id # 0
                          /\ MeetsThreshold(loc[p].final)
                       THEN "s_select_alert" ELSE "done")
          /\ resp'[p] = (IF pc'[p] = "done" THEN "OK" ELSE "none")]_vars

\* a status change and a scoring over the threshold both answered OK with
\* their writes committed although none of their payloads was delivered
AnsweredWithoutDelivery ==
  \E p, q \in Workers :
    /\ pc[p] = "done" /\ resp[p] = "OK" /\ loc[p].kind = "patch"
    /\ pc[q] = "done" /\ resp[q] = "OK" /\ loc[q].kind = "score"
    /\ MeetsThreshold(loc[q].final)
    /\ \A i \in 1..Len(sent) : sent[i].call \notin {loc[p].call, loc[q].call}
    /\ \E a \in alerts : a.id = loc[p].al_id /\ a.status = loc[p].new_status
    /\ \E r \in riskScores : r.id = loc[q].rs_id

\* C13: broadcast_json attempts the send to every connection of its
\* snapshot and never raises; a connection is in its dead list only when
\* the send to it failed, and the broadcast removes from the registry the
\* connections of its dead list and no other.
BroadcastReachesAllPurgesOnlyDead ==
  /\ [](\A b \in Publishers :
         /\ bc[b].pc # "raised"
         /\ \A o \in Range(bc[b].dead) :
              o \in Range(bc[b].conns) /\ sock[o] = "closed" /\ b \notin received[o]
         /\ bc[b].pc = "returned" =>
              \A o \in Range(bc[b].conns) : b \in received[o] \/ o \in Range(bc[b].dead))
  /\ [][\A b \in Publishers :
          bc'[b] # bc[b] =>
            connections' = (IF bc[b].pc = "purge"
                            THEN connections \ Range(bc[b].dead)
                            ELSE connections)]_vars

\* a broadcast over three connections returned: the send to the second one
\* failed, the first and the third were sent the payload and are the
\* registry
MiddleSendFailedOthersServed ==
  \E b \in Publishers :
    /\ bc[b].pc = "returned"
    /\ Len(bc[b].conns) = 3
    /\ bc[b].dead = <<bc[b].conns[2]>>
    /\ b \in received[bc[b].conns[1]]
    /\ b \in received[bc[b].conns[3]]
    /\ connections = {bc[b].conns[1], bc[b].conns[3]}

\* C14: a send that does not complete keeps no other connection from its
\* payload: once a broadcast has its snapshot, eventually every connection
\* of the snapshot that is open has been sent the payload.
StalledSendDelaysNoOther ==
  \A b \in Publishers :
    [](bc[b].pc = "loop" =>
         <>(\A o \in Range(bc[b].conns) : sock[o] = "open" => b \in received[o]))

\* C15: a handler whose writes are committed eventually returns, whatever
\* the connections do: its broadcast_json call returns.
PublisherEventuallyReturns ==
  \A b \in Publishers : bc[b].pc = "committed" ~> bc[b].pc = "returned"

\* the window of key k after the requests of h, from their times alone: a
\* request opens a window when the key has none or the current one started
\* 60 seconds ago or more; pos is the rank of the last request in its window
RECURSIVE WindowPos(_, _)
WindowPos(h, k) ==
  IF h = <<>> THEN [start |-> 0, pos |-> 0]
  ELSE LET prev == WindowPos(SubSeq(h, 1, Len(h) - 1), k)
           e == h[Len(h)]
       IN  IF e.key # k THEN prev
           ELSE IF prev.pos = 0 \/ e.at - prev.start >= WINDOW
                THEN [start |-> e.at, pos |-> 1]
                ELSE [prev EXCEPT !.pos = @ + 1]

\* C16: with the limiter enabled and a cap L over 0, the requests of one
\* (address, route) key under the limiter are admitted while their rank in
\* the key's 60-second window is at most L, and each further one is
\* rejected with 429 RATE_LIMITED carrying L; a request outside the limiter
\* always passes.
FirstRequestsAdmittedRestRejected ==
  \A n \in 1..Len(rlog) :
    LET e == rlog[n]
        rank == WindowPos(SubSeq(rlog, 1, n), e.key).pos
        L == LimitOf(settings)
    IN  IF /\ settings.RATE_LIMIT_ENABLED /\ L > 0
           /\ e.key[2] # "OPTIONS" /\ Protected(e.key[3])
        THEN e.answer = (IF rank <= L THEN Passed ELSE Rejected(L))
        ELSE e.answer = Passed

\* cap 2: three requests of one key within a minute, the first two
\* admitted and the third rejected with limit 2
TwoAdmittedThenRejected ==
  /\ settings.RATE_LIMIT_ENABLED /\ settings.RATE_LIMIT_RPM = 2
  /\ Len(rlog) = 3
  /\ \A n \in 1..3 : rlog[n].key = <<"ip1", "POST", "/score">>
  /\ rlog[3].at - rlog[1].at = 59
  /\ rlog[1].answer = Passed /\ rlog[2].answer = Passed
  /\ rlog[3].answer = Rejected(2)

\* C17: when the model scorer is absent or fails, score_and_persist does not
\* fail and its result is the rule scorer's alone: the row it writes and
\* the ScoringResult it returns carry the rule score and the rule factors.
ModelFailureFallsBackToRules ==
  /\ \A n \in 1..Len(calls) :
       LET c == calls[n]
           rules == ApplyRules(DefaultService, c.f)
       IN  InferScore(c.m).status # "ok" =>
             /\ ~c.raised
             /\ c.result.score = rules.score /\ c.result.factors = rules.factors
             /\ c.row.score = rules.score /\ c.row.factors = rules.factors
             /\ c.row.final_score = rules.score /\ c.row.rules_score = rules.score
  /\ \A t \in TxIds :
       stored[t] # NoRow =>
         \E n \in 1..Len(calls) :
           /\ calls[n].tx = t /\ calls[n].row = stored[t]
           /\ \A k \in (n + 1)..Len(calls) : calls[k].tx # t

\* a transaction scored 85 by the model is scored again while the model
\* fails: the call returned and the row now holds the rule score 60
RescoredByRulesAfterModelFailed ==
  /\ Len(calls) = 2
  /\ calls[1].tx = "t1" /\ calls[1].m = MXgb85 /\ calls[1].row.score = 85
  /\ calls[2].tx = "t1" /\ calls[2].m = MRaise /\ calls[2].f = FLow
  /\ ~calls[2].raised
  /\ calls[2].result.score = 60
  /\ stored["t1"].score = 60

\* C18: the model_version of every persisted RiskScore is the model's
\* version when the model produced a score in that call and rules_v1
\* otherwise, also when one ScoringService object serves several calls.
VersionTellsWhoScored ==
  \A n \in 1..Len(calls) :
    LET ml == InferScore(calls[n].m)
    IN  calls[n].row.model_version =
          (IF ml.status = "ok" THEN ml.model_version ELSE "rules_v1")

\* C19: a scoring of an unknown transaction id, and a status change or an
\* event listing on an unknown alert id, end in NOT_FOUND; the step that
\* answers NOT_FOUND changes no table and publishes nothing.
UnknownIdAnswersNotFound ==
  /\ [](\A p \in Workers :
         (\/ loc[p].kind = "score" /\ loc[p].tx \notin transactions
          \/ /\ loc[p].kind \in {"patch", "list"}
             /\ \A a \in alerts : a.id # loc[p].al_id)
         => (pc[p] = "done" /\ resp[p] = "NOT_FOUND"))
  /\ [][\A p \in Workers :
          (resp'[p] = "NOT_FOUND" /\ resp[p] # "NOT_FOUND")
          => UNCHANGED <<dbVars, sent>>]_vars

\* a scoring of the unknown t2 and a status change of an unknown alert were
\* both answered NOT_FOUND, the tables empty as before and nothing published
UnknownTransactionAndAlertRefused ==
  \E p, q \in Workers :
    /\ loc[p].kind = "score" /\ loc[p].tx = "t2" /\ resp[p] = "NOT_FOUND"
    /\ loc[q].kind = "patch" /\ loc[q].al_id = 0 /\ resp[q] = "NOT_FOUND"
    /\ transactions = {"t1"} /\ riskScores = {} /\ alerts = {} /\ events = <<>>
    /\ sent = <<>>

\* two means are the same number
SameMean(a, b) ==
  IF a = <<>> \/ b = <<>> THEN a = b ELSE a[1].sum * b[1].n = b[1].sum * a[1].n

\* C20: the features of a transaction depend only on the transactions that
\* occurred up to it: two builds of the same transaction on tables that
\* hold the same transactions up to its occurred_at give the same count
\* over 24 hours and the same mean over 7 days.
LaterTransactionsNeverContribute ==
  \A n, k \in 1..Len(built) :
    UpTo(BuiltTx, built[n].table) = UpTo(BuiltTx, built[k].table)
    => /\ built[n].features.merchant_tx_count_24h = built[k].features.merchant_tx_count_24h
       /\ SameMean(built[n].features.avg_amount_category_7d,
                   built[k].features.avg_amount_category_7d)

\* C21: within one scoring request no notification is published before the
\* alert decision of the request is taken: a request with a payload taken
\* by the manager is past its alert select.
NotifiedAfterAlertDecision ==
  \A p \in Workers :
    (/\ loc[p].kind = "score"
     /\ \E n \in 1..Len(sent) : sent[n].call = loc[p].call)
    => pc[p] \in {"s_commit_alert", "s_notify_alert", "done"}

\* the payloads of the call of worker p that the manager has taken
SentBy(p, ty) == {n \in 1..Len(sent) : sent[n].call = loc[p].call /\ sent[n].type = ty}

\* C22: a payload is published only after the commit of what it reports:
\* SCORE_COMPUTED with the call's RiskScore committed, ALERT_CREATED with
\* the alert committed and the event of the call's insert or update with
\* it, ALERT_STATUS_CHANGED with the call's STATUS_CHANGE event committed;
\* a call that commits nothing publishes nothing, and the step that
\* publishes writes no table.
PublishedAfterCommit ==
  /\ [](\A p \in Workers :
         /\ SentBy(p, "SCORE_COMPUTED") # {} =>
              /\ loc[p].kind = "score"
              /\ \E r \in riskScores : r.id = loc[p].rs_id /\ r.transaction_id = loc[p].tx
         /\ SentBy(p, "ALERT_CREATED") # {} =>
              /\ loc[p].kind = "score"
              /\ \E a \in alerts : a.id = loc[p].al_id /\ a.risk_score_id = loc[p].rs_id
              /\ loc[p].pend \in {"insert", "update"} =>
                   \E k \in 1..Len(events) : /\ events[k].call = loc[p].call
                                              /\ events[k].alert_id = loc[p].al_id
         /\ SentBy(p, "ALERT_STATUS_CHANGED") # {} =>
              /\ loc[p].kind = "patch"
              /\ \E a \in alerts : a.id = loc[p].al_id
              /\ \E k \in 1..Len(events) : /\ events[k].call = loc[p].call
                                            /\ events[k].event_type = "STATUS_CHANGE"
                                            /\ events[k].alert_id = loc[p].al_id
         /\ resp[p] \in {"NOT_FOUND", "VALIDATION_ERROR"} =>
              \A n \in 1..Len(sent) : sent[n].call # loc[p].call
         /\ (resp[p] = "INTERNAL_ERROR" /\ loc[p].rs_id = 0) =>
              \A n \in 1..Len(sent) : sent[n].call # loc[p].call)
  /\ [][sent' # sent => UNCHANGED dbVars]_vars

\* the three payloads were taken by the manager: a scoring that created
\* its alert published SCORE_COMPUTED and ALERT_CREATED, a status change
\* of that alert published ALERT_STATUS_CHANGED
ThreePayloadsPublished ==
  \E p, q \in Workers :
    /\ SentBy(p, "SCORE_COMPUTED") # {} /\ SentBy(p, "ALERT_CREATED") # {}
    /\ loc[p].pend = "insert"
    /\ SentBy(q, "ALERT_STATUS_CHANGED") # {}
    /\ loc[q].al_id = loc[p].al_id

\* C23: in every reachable state the status of every alert is one of
\* A_TRAITER, EN_ENQUETE, CLOTURE, whichever operation created or last
\* changed it.
AlertStatusInStateMachine ==
  \A a \in alerts : a.status \in AlertStatus

\* the positions in events of the events of alert aid
EventIndexes(aid) == {k \in 1..Len(events) : events[k].alert_id = aid}

\* C24: the event ledger determines the current state: every alert has at
\* least one event, and its status is the new_status of the event appended
\* last for it.
StatusIsLastEventStatus ==
  \A a \in alerts :
    /\ EventIndexes(a.id) # {}
    /\ \A k \in EventIndexes(a.id) :
         (\A j \in EventIndexes(a.id) : j <= k) => events[k].new_status = a.status

\* C25: the events are append-only: every step of a scoring or of a status
\* change leaves the events as they were or adds events after them; no
\* event is removed and no field of an earlier event changes.
EventsAppendOnly ==
  [][/\ Len(events') >= Len(events)
     /\ SubSeq(events', 1, Len(events)) = events]_vars

\* the CREATED event of an alert is followed by the STATUS_CHANGE of a
\* status change and the SCORE_UPDATED of a rescoring of the same alert
LedgerGrewByStatusChangeAndRescoring ==
  /\ Len(events) >= 3
  /\ events[1].event_type = "CREATED"
  /\ \E j, k \in 2..Len(events) :
       /\ events[j].event_type = "STATUS_CHANGE" /\ events[j].alert_id = events[1].alert_id
       /\ events[k].event_type = "SCORE_UPDATED" /\ events[k].alert_id = events[1].alert_id

\* the increment of the highest tier reached, from the thresholds and
\* increments of a tier list given highest first
AmountIncrement(x) == IF x >= 200 THEN 35 ELSE IF x >= 120 THEN 20 ELSE IF x >= 60 THEN 10 ELSE 0
HourIncrement(h) == IF h <= 5 THEN 20 ELSE IF h <= 7 THEN 10 ELSE 0
FrequencyIncrement(n) == IF n >= 5 THEN 15 ELSE IF n >= 3 THEN 8 ELSE 0

\* C26: the rule score is min(100, 10 + the increments of the conditions
\* that fire): the amount, the hour and the frequency each add the
\* increment of their highest tier alone, online adds 10, a high-risk
\* category 15, a high-risk zone 10, and an amount of twice the 7-day mean
\* or more adds 10 only when the mean is known and over 0.
RuleScoreIsCappedSum ==
  \A n \in 1..Len(rres) :
    rres[n].score =
      Min(100,
          10 + AmountIncrement(rf.amount)
             + HourIncrement(rf.hour)
             + FrequencyIncrement(rf.merchant_tx_count_24h)
             + (IF rf.is_online THEN 10 ELSE 0)
             + (IF rf.category \in {"Electronics", "electronics"} THEN 15 ELSE 0)
             + (IF rf.arrondissement = "Saint-Denis" THEN 10 ELSE 0)
             + (IF /\ rf.avg_amount_category_7d # <<>>
                   /\ rf.avg_amount_category_7d[1] > 0
                   /\ rf.amount >= 2 * rf.avg_amount_category_7d[1]
                THEN 10 ELSE 0))

\* amount 250, hour 3, online, electronics, 6 transactions in 24h, mean 50:
\* the increments sum to 115 and the score is 100
ExampleScoresHundred ==
  /\ rf.amount = 250 /\ rf.hour = 3 /\ rf.is_online /\ rf.category = "electronics"
  /\ rf.merchant_tx_count_24h = 6 /\ rf.avg_amount_category_7d = <<50>>
  /\ rres # <<>>
  /\ rres[1].score = 100
  /\ ApplyRulesUnclamped(svc, rf).score >= 115

\* the justifications of the conditions that fire on f, in evaluation order
Justifications(f) ==
  LET fired == FiredRules(DefaultService, f)
  IN  [k \in 1..Len(fired) |-> fired[k].factor]

\* C27: the factors returned are at most 5: the first 5 justifications of
\* the conditions that fired, in evaluation order, or, when the model
\* answered, the model-used entry followed by them, cut to 5 in all. The
\* score is not touched by the cut: the rule score holds the increment of
\* every condition that fired, also of those whose factor is dropped.
FactorsAreFirstFive ==
  \A n \in 1..Len(calls) :
    LET c == calls[n]
        ml == InferScore(c.m)
        all == Justifications(c.f)
        full == IF ml.status = "ok" THEN <<ModelFactor(ml.kind)>> \o all ELSE all
    IN  ~c.raised =>
          /\ Len(c.result.factors) <= 5
          /\ c.result.factors = SubSeq(full, 1, Min(5, Len(full)))
          /\ c.row.factors = c.result.factors
          /\ c.row.rules_score = Min(100, 10 + SumInc(FiredRules(DefaultService, c.f)))
          /\ c.result.score >= c.row.rules_score

\* seven conditions fired and the model answered 50: the five factors are
\* the model-used entry and the first four justifications, and the score
\* is the 83 of the seven increments
SevenFiredFiveReturned ==
  \E n \in 1..Len(calls) :
    /\ calls[n].f = FSeven /\ calls[n].m = MXgb50
    /\ Len(Justifications(FSeven)) = 7
    /\ Len(calls[n].result.factors) = 5
    /\ calls[n].result.factors[1] = ModelFactor("xgboost")
    /\ calls[n].result.factors[5] = Justifications(FSeven)[4]
    /\ calls[n].result.score = 83

\* C28: the final score persisted by every scoring is an integer from 0 to
\* 100, whatever the model's output before normalisation: in the row of
\* the call, in its ScoringResult and in the table.
FinalScoreInRange ==
  /\ \A n \in 1..Len(calls) :
       ~calls[n].raised =>
         /\ calls[n].row.score \in 0..100
         /\ calls[n].row.final_score \in 0..100
         /\ calls[n].result.score \in 0..100
  /\ \A t \in TxIds : stored[t] # NoRow => stored[t].score \in 0..100

\* a model output over 100 persisted as 100, and one under 0 persisted as
\* the rule score
OutOfRangeModelOutputPersisted ==
  /\ Len(calls) = 2
  /\ calls[1].m = MIfOver /\ calls[1].tx = "t1" /\ stored["t1"].score = 100
  /\ calls[2].m = MIfUnder /\ calls[2].tx = "t2" /\ calls[2].f = FLow
  /\ stored["t2"].score = 60

\* the tasks that enter the lock, and where each stands
LockTasks == Clients \cup {"pub", "closer"}
Position(t) == IF t \in Clients THEN route[t] ELSE IF t = "pub" THEN pub.pc ELSE closer.pc
PositionAfter(t) ==
  IF t \in Clients THEN route'[t] ELSE IF t = "pub" THEN pub'.pc ELSE closer'.pc

\* C29: the registry is changed (connect, disconnect, purge, close_all) and
\* snapshotted only by the task that holds the lock; broadcast_json does
\* not hold the lock while it sends, so a connect or a disconnect that
\* waits for the lock gets through also while a send of the fan-out stays
\* pending; and only the connections of the snapshot are sent the payload.
RegistryUnderLockSendsOutside ==
  /\ [][(\/ registered' # registered
         \/ pub'.conns # pub.conns
         \/ closer.pc # "closing" /\ closer'.conns # closer.conns)
        => (lock \in LockTasks /\ PositionAfter(lock) # Position(lock))]_vars
  /\ [][(pub.pc = "loop" /\ pub' # pub) => lock # "pub"]_vars
  /\ [](pub.pc \in {"loop", "p_acquire", "returned"} => lock # "pub")
  /\ [](got \subseteq Range(pub.conns))
  /\ \A o \in Clients :
       /\ route[o] \in {"c_acquire", "c_add"} ~> route[o] = "ack"
       /\ route[o] \in {"d_acquire", "d_discard"} ~> route[o] = "ended"

\* a send of the fan-out is pending on a client that does not read; the
\* other client connected after the snapshot: it is registered, outside
\* the snapshot, and was not sent the payload
RegisteredDuringPendingSend ==
  \E o \in Clients :
    /\ pub.pc = "loop"
    /\ link[pub.conns[pub.i]] = "stalled"
    /\ o \notin Range(pub.conns)
    /\ o \in registered /\ route[o] = "recv"
    /\ o \notin got

\* C30: the entry of a WebSocket ends with its connection: a registered
\* WebSocket whose transport is lost (the client left, or a send to it
\* failed, the WS_CONNECTED acknowledgement included) is eventually out of
\* the registry, and a WebSocket leaves the registry only when its
\* transport is lost or close_all clears the registry.
EntryEndsWithConnection ==
  /\ \A o \in Clients : (o \in registered /\ link[o] = "down") ~> (o \notin registered)
  /\ [][\A o \in Clients :
          (o \in registered /\ o \notin registered')
          => (link[o] = "down" \/ lock = "closer")]_vars

\* C31: the admission gate runs before the pipeline: the request that the
\* limiter rejects is answered RATE_LIMITED at once, its handler takes no
\* step, the step that rejects it leaves the tables and the payloads as
\* they were, and no event and no payload carries its call.
RejectedRequestTouchesNothing ==
  /\ [](\A n \in 1..Len(rlog) :
         rlog[n].answer # Passed =>
           /\ pc[WorkerSeq[n]] = "done" /\ resp[WorkerSeq[n]] = "RATE_LIMITED"
           /\ loc[WorkerSeq[n]].rs_id = 0 /\ loc[WorkerSeq[n]].al_id = 0
           /\ \A k \in 1..Len(events) : events[k].call # n
           /\ \A k \in 1..Len(sent) : sent[k].call # n)
  /\ [][Len(rlog') > Len(rlog) /\ rlog'[Len(rlog')].answer # Passed
        => UNCHANGED <<dbVars, sent>>]_vars

\* the first request was admitted, scored at or over the threshold and
\* published; the second, in the same window, was rejected with 429
SecondRequestRejectedFirstScored ==
  /\ Len(rlog) = 2
  /\ rlog[1].answer = Passed /\ rlog[2].answer = Rejected(1)
  /\ resp["w1"] = "OK" /\ resp["w2"] = "RATE_LIMITED"
  /\ \E r \in riskScores : r.id = loc["w1"].rs_id
  /\ \E a \in alerts : a.id = loc["w1"].al_id
  /\ \E k \in 1..Len(sent) : sent[k].call = 1

\* the requests of key k admitted at a time from t up to, not including,
\* t + 60
AdmittedIn(k, t) ==
  {n \in 1..Len(rlog) : /\ rlog[n].key = k /\ rlog[n].answer = Passed
                         /\ t <= rlog[n].at /\ rlog[n].at < t + WINDOW}

\* C32: the admission is a sliding window: in every interval of 60
\* seconds, wherever it starts, at most L requests of one key are
\* admitted, L being the cap.
AtMostCapInAnyMinute ==
  \A n \in 1..Len(rlog) :
    Cardinality(AdmittedIn(rlog[n].key, rlog[n].at)) <= LimitOf(settings)

\* C33: the fixed window gives a bounded cap across window boundaries: in
\* every interval of 60 seconds at most 2 * L requests of one key are
\* admitted, for every arrival pattern.
AtMostTwiceCapInAnyMinute ==
  \A n \in 1..Len(rlog) :
    Cardinality(AdmittedIn(rlog[n].key, rlog[n].at)) <= 2 * LimitOf(settings)

\* cap 2: a request admitted at the end of a window and two at the start
\* of the next one, three admitted within two seconds
ThreeAdmittedAcrossBoundary ==
  /\ LimitOf(settings) = 2
  /\ Len(rlog) = 4
  /\ \A n \in 1..4 : rlog[n].key = <<"ip1", "POST", "/score">> /\ rlog[n].answer = Passed
  /\ rlog[1].at = 0 /\ rlog[2].at = 59 /\ rlog[3].at = 60 /\ rlog[4].at = 60
  /\ Cardinality(AdmittedIn(rlog[2].key, 59)) = 3

\* C39: rejections cannot starve a caller: the step that rejects a request
\* adds 1 to the counter of its key and leaves the window start where it
\* was, and a request that arrives 60 seconds or more after the window
\* start of its key is admitted and starts a window at its arrival with
\* count 1.
RejectionKeepsWindowStart ==
  [][Len(rlog') > Len(rlog) =>
       LET e == rlog'[Len(rlog')]
           k == e.key
       IN  /\ e.answer # Passed =>
                /\ buckets'[k].window_start = buckets[k].window_start
                /\ buckets'[k].count = buckets[k].count + 1
           /\ (buckets[k] # NoBucket /\ e.at - buckets[k].window_start >= WINDOW) =>
                /\ e.answer = Passed
                /\ buckets'[k] = [window_start |-> e.at, count |-> 1]]_vars

\* cap 1: the caller was rejected twice within its window, the last time
\* one second before the window's end, and is admitted at the 60th second
AdmittedAfterRejections ==
  /\ LimitOf(settings) = 1
  /\ Len(rlog) = 4
  /\ \A n \in 1..4 : rlog[n].key = <<"ip1", "POST", "/score">>
  /\ rlog[1].at = 0 /\ rlog[1].answer = Passed
  /\ rlog[2].answer = Rejected(1)
  /\ rlog[3].at = 59 /\ rlog[3].answer = Rejected(1)
  /\ rlog[4].at = 60 /\ rlog[4].answer = Passed
  /\ buckets[rlog[4].key] = [window_start |-> 60, count |-> 1]

\* C34: the listing of an alert's events returns all the events of the
\* alert and only those, by non-decreasing created_at, and that order is
\* the order in which the events were appended: of two events of one
\* alert the one appended first has the smaller or the same created_at.
\* The call is a pure read: it changes no table and publishes nothing.
ListingIsLedgerInAppendOrder ==
  /\ [][\A p \in Workers :
          (pc[p] = "idle" /\ pc'[p] = "done" /\ loc'[p].kind = "list" /\ resp'[p] = "OK")
          => LET q == loc'[p].listed
             IN  /\ {q[k] : k \in 1..Len(q)} = EventIndexes(loc'[p].al_id)
                 /\ Len(q) = Cardinality(EventIndexes(loc'[p].al_id))
                 /\ \A a, b \in 1..Len(q) :
                      a < b => events[q[a]].created_at <= events[q[b]].created_at
                 /\ UNCHANGED <<dbVars, sent>>]_vars
  /\ [](\A j, k \in 1..Len(events) :
         (j < k /\ events[j].alert_id = events[k].alert_id)
         => events[j].created_at <= events[k].created_at)

\* C35: ALERT_CREATED is published only by a scoring call that created an
\* alert, at most once per alert; a call that found the alert, whether it
\* updated the snapshot or not, publishes no ALERT_CREATED.
AlertCreatedOnlyOnCreation ==
  /\ \A p \in Workers : SentBy(p, "ALERT_CREATED") # {} => loc[p].pend = "insert"
  /\ \A j, k \in 1..Len(sent) :
       (/\ sent[j].type = "ALERT_CREATED" /\ sent[k].type = "ALERT_CREATED"
        /\ sent[j].alert = sent[k].alert)
       => j = k

\* the events, in order, of the alerts als that belong to a transaction
\* other than tx
EventsOfOthers(evs, als, tx) ==
  SelectSeq(evs, LAMBDA e : \E a \in als : a.id = e.alert_id /\ a.transaction_id # tx)

\* C36: scorings of different transactions are independent: a step of a
\* scoring call for transaction A leaves the RiskScore, the alert and the
\* alert events of every other transaction as they were.
ScoringLeavesOtherTransactions ==
  [][\A p \in Workers :
       (pc'[p] # pc[p] /\ loc'[p].kind \in {"score", "dash"})
       => LET A == loc'[p].tx
          IN  /\ {r \in riskScores' : r.transaction_id # A}
                   = {r \in riskScores : r.transaction_id # A}
              /\ {a \in alerts' : a.transaction_id # A}
                   = {a \in alerts : a.transaction_id # A}
              /\ EventsOfOthers(events', alerts', A) = EventsOfOthers(events, alerts', A)]_vars

\* t1 was rescored by POST /score while t2 was ingested and scored: both
\* calls answered, each transaction has its own RiskScore and alert, and
\* the alert of t1 has its events
TwoTransactionsScoredSideBySide ==
  \E p, q \in Workers :
    /\ loc[p].kind = "score" /\ loc[p].tx = "t1" /\ resp[p] = "OK" /\ loc[p].pend = "update"
    /\ loc[q].kind = "dash" /\ loc[q].tx = "t2" /\ resp[q] = "OK" /\ loc[q].pend = "insert"
    /\ \E r \in riskScores : r.transaction_id = "t1" /\ r.score = loc[p].final
    /\ \E r \in riskScores : r.transaction_id = "t2" /\ r.score = loc[q].final
    /\ \E a \in alerts : a.transaction_id = "t1" /\ EventIndexes(a.id) # {}
    /\ \E a \in alerts : a.transaction_id = "t2"

\* C37: once no scoring call is in flight, a persisted score at or over the
\* threshold is the score_snapshot of the alert of that RiskScore, whatever
\* the interleaving of the concurrent rescorings was.
SnapshotIsPersistedScoreAtRest ==
  (\A p \in Workers : pc[p] \in {"idle", "done"})
  => \A r \in riskScores :
       MeetsThreshold(r.score)
       => \A a \in alerts : a.risk_score_id = r.id => a.score_snapshot = r.score

\* C38: under the constant threshold every alert holds a score_snapshot at
\* or over it; a step that creates an alert or sets a snapshot is a step of
\* a scoring call whose final score is at or over the threshold and writes
\* that score, and no step of a call that scored under it touches an alert.
SnapshotAtOrOverThreshold ==
  /\ [](\A a \in alerts : a.score_snapshot >= ALERT_THRESHOLD)
  /\ [][\A a \in alerts' :
          (\A b \in alerts : b.id = a.id => b.score_snapshot # a.score_snapshot)
          => \E p \in Workers :
               /\ pc'[p] # pc[p]
               /\ loc[p].kind \in {"score", "dash"}
               /\ loc[p].final >= ALERT_THRESHOLD
               /\ a.score_snapshot = loc[p].final]_vars
  /\ [][\A p \in Workers :
          (pc'[p] # pc[p] /\ loc'[p].kind \in {"score", "dash"}
             /\ loc'[p].final < ALERT_THRESHOLD)
          => alerts' = alerts]_vars

\* the alert of t1 had its snapshot raised by one rescoring, and a later
\* rescoring under the threshold was answered: the snapshot is still the
\* raised one
UnderThresholdRescoringAfterRaise ==
  \E p, q \in Workers :
    /\ loc[p].kind = "score" /\ loc[p].pend = "update" /\ resp[p] = "OK"
    /\ loc[q].kind = "score" /\ loc[q].tx = loc[p].tx /\ resp[q] = "OK"
    /\ loc[q].call > loc[p].call
    /\ loc[q].final < ALERT_THRESHOLD /\ loc[p].final > ALERT_THRESHOLD
    /\ \E r \in riskScores : r.transaction_id = loc[q].tx /\ r.score = loc[q].final
    /\ \E a \in alerts : a.id = loc[p].al_id /\ a.score_snapshot = loc[p].final

\* C40: in a scoring request that publishes both payloads, an observer that
\* was registered when SCORE_COMPUTED was published, stayed registered, and
\* whose sends did not fail has received SCORE_COMPUTED by the time it
\* receives ALERT_CREATED.
ScoreComputedBeforeAlertCreated ==
  [][\A o \in Observers :
       (/\ "b2" \in received'[o] /\ "b2" \notin received[o]
        /\ o \in Range(bc["b1"].conns)
        /\ o \notin Range(bc["b1"].dead))
       => "b1" \in received[o]]_vars

\* both broadcasts returned; o1 was in both snapshots and received both
\* payloads while another connection was lost and purged by the first
BothPayloadsReceivedInOrder ==
  /\ bc["b1"].pc = "returned" /\ bc["b2"].pc = "returned"
  /\ "o1" \in Range(bc["b1"].conns) /\ "o1" \in Range(bc["b2"].conns)
  /\ received["o1"] = {"b1", "b2"}
  /\ bc["b1"].dead # <<>>
  /\ \E o \in Observers : o \in Range(bc["b2"].conns) /\ o \notin Range(bc["b1"].conns)

====
